---- MODULE Spec2Model ----
(***************************************************************************)
(* The render loop of App::run (src/src/core/App.cpp) driving RayTracer    *)
(* (src/src/rt/RayTracer.cpp), with the GPU queue, the per-frame-slot      *)
(* fences and the swapchain as the environment.  One loop iteration is     *)
(* cut at the calls where the host can block or where the GPU can make     *)
(* progress in between (fence wait, acquire, recording, submit, present,   *)
(* device idle-wait); everything between two such calls is one action.     *)
(***************************************************************************)
EXTENDS Integers, Sequences, FiniteSets, TLC

\* ------------------------------------------------------------------ bounds

\* Largest swapchain image count the surface may hand out.
MaxImages == 2

\* sampleFrame values up to this bound are stepped one frame at a time; a
\* longer uneventful run is taken in one step by IdleFrames.
MaxSampleFrame == 2

\* Invalidations between two dispatches are counted up to this bound.
MaxInvalidations == 2

\* The device's objects are numbered in the order of their creation; resize
\* is followed while the next object's number is at most this.
MaxHandle == 12

\* Largest swapchain image count in the model of the semaphores (SyncSpec).
MaxSyncImages == 3

\* Iterations that change the camera, in the model of the input (InputSpec).
MaxMoves == 1

\* ------------------------------------------------------- program constants

maxFramesInFlight == 2

windowWidth == 1280

windowHeight == 720

\* uint32_t values (sampleFrame, frameIndex) keep their 32 bits as two 16-bit
\* halves, hi * 2^16 + lo.
Half == 2 ^ 16

U32(hi, lo) == [ hi |-> hi, lo |-> lo ]

U32Zero == U32(0, 0)

UINT32_MAX == U32(Half - 1, Half - 1)

\* ++x on a uint32_t: wraps from UINT32_MAX to 0.
U32Inc(x) ==
    IF x.lo = Half - 1
    THEN U32((x.hi + 1) % Half, 0)
    ELSE U32(x.hi, x.lo + 1)

\* --x, used only to name the frames before the wrap.
U32Dec(x) ==
    IF x.lo = 0
    THEN U32((x.hi + Half - 1) % Half, Half - 1)
    ELSE U32(x.hi, x.lo - 1)

\* x + n on a uint32_t, for n below 2^16.
U32Add(x, n) ==
    LET lo == x.lo + n IN U32((x.hi + (lo \div Half)) % Half, lo % Half)

\* x / 8 on a uint32_t.
U32Div8(x) == U32(x.hi \div 8, (x.hi % 8) * (Half \div 8) + (x.lo \div 8))

\* 8 * x on a uint32_t.
U32Mul8(x) ==
    LET lo == 8 * x.lo IN U32((8 * x.hi + (lo \div Half)) % Half, lo % Half)

FrameSlots == 0 .. (maxFramesInFlight - 1)

ImageCounts == 1 .. MaxImages

Images(n) == 0 .. (n - 1)

\* Image layouts named by the barriers and the render pass.
LAYOUT_UNDEFINED == "UNDEFINED"

LAYOUT_GENERAL == "GENERAL"

LAYOUT_PRESENT_SRC == "PRESENT_SRC_KHR"

LAYOUT_COLOR_ATTACHMENT == "COLOR_ATTACHMENT_OPTIMAL"

\* No frame index: before the first render, and a parameter slot never written.
NoFrame == U32(-1, -1)

VARIABLES
    \* App::run locals
    pc,                 \* position of the host thread in the loop
    currentFrame,       \* uint32_t currentFrame
    sampleFrame,        \* uint32_t sampleFrame
    imageIndex,         \* uint32_t imageIndex of the iteration
    \* RayTracer members
    mResetAccum,
    mAccumInitialized,
    mSwapchainImageInitialized,
    mParamsMapped,      \* per image slot: the frameIndex field last written
    \* Swapchain
    imageCount,         \* swapchain.bundle().images.size()
    \* VulkanContext / device
    inFlight,           \* per frame slot: fence signaled
    cmdBuf,             \* per frame slot: recorded commands
    queue,              \* submissions not yet completed, in submission order
    \* history of the run (not program state)
    frame,              \* what the current iteration did so far
    hist,               \* what earlier iterations did
    \* RayTracer members set through the setters
    mSamplesPerPixel,   \* uint32_t
    mMaxDepth,          \* uint32_t
    mAperture,          \* float
    mVerticalFov,       \* float, degrees
    mFocusDistance,     \* float
    lastCall,           \* history kept by ApiSpec: the latest call on the RayTracer
    \* Swapchain
    extent,             \* swapchain.bundle().extent
    \* RayTracer members holding the scene and the GPU objects
    mSpheres,           \* std::vector<GPUSphere>
    mSphereBuffer,
    mAccumImage,
    mAccumView,
    mDescriptorPool,
    mDescriptorSets,    \* per image: what the set's four bindings point at
    mParamsBuffers,
    paramsSphereCount,  \* per image slot: the sphereCount field last written
    dispatchGroups,     \* groupX, groupY of the latest vkCmdDispatch since (re)creation
    \* the device
    device,             \* the images, views, buffers and pools that exist
    nextHandle,         \* identity of the next object the device creates
    \* history of the run (not program state)
    freed,              \* what the latest call destroyed, in order
    resizes,            \* number of RayTracer::resize calls so far
    \* VulkanContext: synchronization objects
    mFrames,            \* per frame slot: the FrameSync handles
    syncObjects,        \* the semaphores and fences that exist
    semaphores,         \* per semaphore: signaled, or a signal is pending
    \* the presentation engine
    presents,           \* presentation requests not yet processed, in order
    \* RayTracer members holding the camera
    mCamPos,            \* glm::vec3
    mCamDir,            \* glm::vec3
    paramsCamera,       \* the camera fields of the GPUParams last written to a slot
    \* VulkanContext, Swapchain and the UI: the device and its other objects
    context,
    \* Dear ImGui
    uiFrame,            \* the UI frame: "ended", "begun", or "begunTwice" when NewFrame
                        \* was called on a frame not yet finished
    \* App::run locals of the camera input
    input

\* The numeric settings.  They influence neither the loop's control flow nor
\* the commands recorded, so the loop model (Spec) follows which setter ran
\* and what it does to mResetAccum and sampleFrame, and leaves the numbers to
\* ApiSpec, which calls the setters with arguments inside and outside the
\* slider ranges, in any order.
settings == << mSamplesPerPixel, mMaxDepth, mAperture, mVerticalFov,
               mFocusDistance, lastCall >>

\* The scene, the GPU objects behind the flags and the extent.  The loop model
\* (Spec) and ApiSpec follow the flags that create, resize and render set and
\* leave these variables as the RayTracer's member initializers have them; the
\* objects themselves, for extents of any size, are followed by LifeSpec.
resources == << extent, mSpheres, mSphereBuffer, mAccumImage, mAccumView,
                mDescriptorPool, mDescriptorSets, mParamsBuffers,
                paramsSphereCount, dispatchGroups, device, nextHandle, freed,
                resizes >>

\* The synchronization objects and the presentation engine.  The handles are
\* fixed once createSyncObjects ran; what the GPU and the presentation engine
\* do with the semaphores is followed by SyncSpec, the other specifications
\* leave it alone.
sync == << mFrames, syncObjects, semaphores, presents >>

\* The camera.  Its vectors influence neither the loop's control flow nor the
\* commands recorded; they are followed by CamSpec, which calls setCamera with
\* positions and directions of its own, and the other specifications leave
\* them as create has them.
cameraState == << mCamPos, mCamDir, paramsCamera >>

vars == << pc, currentFrame, sampleFrame, imageIndex, mResetAccum,
           mAccumInitialized, mSwapchainImageInitialized, mParamsMapped,
           imageCount, inFlight, cmdBuf, queue, frame, hist,
           mSamplesPerPixel, mMaxDepth, mAperture, mVerticalFov,
           mFocusDistance, lastCall,
           extent, mSpheres, mSphereBuffer, mAccumImage, mAccumView,
           mDescriptorPool, mDescriptorSets, mParamsBuffers,
           paramsSphereCount, dispatchGroups, device, nextHandle, freed,
           resizes, mFrames, syncObjects, semaphores, presents,
           mCamPos, mCamDir, paramsCamera, context, uiFrame, input >>

\* ------------------------------------------------------------- history

\* What one loop iteration did.  kind: "none" before the first iteration,
\* "frame" while an iteration is under way, "rendered" once it reached the
\* bookkeeping, "resize" / "acquireOutOfDate" for the iterations that skip.
NewFrame(kind, cam) ==
    [ kind            |-> kind,
      camChanged      |-> cam,
      frameIndex      |-> NoFrame,  \* frameIndex passed to render
      resetAtStart    |-> FALSE,    \* mResetAccum when render began
      invalsBefore    |-> 0,        \* invalidations since the previous dispatch
      otherBefore     |-> FALSE,    \* non-camera invalidation since the previous render
      prevIndex       |-> NoFrame,  \* frameIndex of the previous rendered frame
      prevCleared     |-> FALSE,    \* the previous rendered frame recorded a clear
      clearedBefore   |-> FALSE,    \* a clear was recorded since the image was created
      recreatedBefore |-> { },      \* recreation paths taken since the previous render
      paramsInFlight  |-> FALSE,    \* updateParams wrote a slot a pending submission binds
      cmdInFlight     |-> FALSE,    \* command buffer reset while its submission was pending
      uiChanged       |-> FALSE,    \* a slider changed after render
      recreated       |-> FALSE,    \* surface recreated after present
      accumUsedBefore |-> FALSE,    \* an earlier frame used the accumulation image
      imageRecordedBefore |-> FALSE,          \* an earlier frame targeted the acquired image
      imageLayoutBefore |-> LAYOUT_UNDEFINED, \* layout earlier frames leave that image in
      presentResult   |-> "none",   \* "success", "outOfDate" (or suboptimal), "error"
      failed          |-> "none" ]  \* the GPU call of this iteration that returned an error

InitHist ==
    [ prevIndex            |-> NoFrame,
      prevCleared          |-> FALSE,
      invals               |-> 0,       \* invalidations since the last dispatch (saturating)
      otherInval           |-> FALSE,   \* non-camera invalidation since the last render
      clearedSinceCreate   |-> FALSE,   \* a clear recorded since the accumulation image was created
      recreatedSinceRender |-> { },
      accumUsed            |-> FALSE,   \* a frame used the accumulation image since it was created
      recordedImages       |-> { },     \* images a frame targeted since the swapchain was created
      \* layout the recorded commands leave each swapchain image in
      imageLayout          |-> [ i \in Images(imageCount) |-> LAYOUT_UNDEFINED ] ]

Min(a, b) == IF a < b THEN a ELSE b

CountInval(h, camera) ==
    [ h EXCEPT !.invals = Min(@ + 1, MaxInvalidations),
               !.otherInval = @ \/ ~camera ]

SeqToSet(q) == { q[k] : k \in 1 .. Len(q) }

\* ------------------------------------------------------------ RayTracer

\* float values, in thousandths, and NaN.  Every comparison with NaN is false.
F(v) == [ v |-> v, nan |-> FALSE ]

NaN == [ v |-> 0, nan |-> TRUE ]

FLess(a, b) == ~a.nan /\ ~b.nan /\ a.v < b.v

\* std::max(a, b): (a < b) ? b : a
FMax(a, b) == IF FLess(a, b) THEN b ELSE a

\* std::clamp(v, lo, hi): (v < lo) ? lo : (hi < v) ? hi : v, as libstdc++,
\* libc++ and the MSVC library compute it: both comparisons are false for a NaN,
\* which is returned.
FClamp(v, lo, hi) == IF FLess(v, lo) THEN lo ELSE IF FLess(hi, v) THEN hi ELSE v

\* a < b on uint32_t
U32Less(a, b) == a.hi < b.hi \/ (a.hi = b.hi /\ a.lo < b.lo)

\* std::max(a, b) on uint32_t
U32Max(a, b) == IF U32Less(a, b) THEN b ELSE a

\* mSamplesPerPixel = std::max(1u, samplesPerPixel);
SamplesPerPixelStored(samplesPerPixel) == U32Max(U32(0, 1), samplesPerPixel)

\* mMaxDepth = std::max(1u, depth);
MaxDepthStored(depth) == U32Max(U32(0, 1), depth)

\* mAperture = std::max(0.0f, aperture);
ApertureStored(aperture) == FMax(F(0), aperture)

\* mVerticalFov = std::clamp(verticalFov, 5.0f, 120.0f);
FovStored(verticalFov) == FClamp(verticalFov, F(5000), F(120000))

\* if (focusDistance > 0.0f): the argument is stored.
FocusAccepted(focusDistance) == FLess(F(0), focusDistance)

\* setFocusDistance and setCamera: the stored focus distance after the call.
FocusStored(current, focusDistance) ==
    IF FocusAccepted(focusDistance) THEN focusDistance ELSE current

\* ------------------------------------------------------------ the camera
\* float arithmetic of the camera vectors: IEEE-754 binary32, every operation
\* rounded to nearest, ties to even, none fused with another.  A finite value
\* is (-1)^s * m * 2^e with m = 0 or 2^23 <= m < 2^24; the exponent range is
\* not limited, the values of the model stay far inside binary32's.

RECURSIVE Pow2(_)
Pow2(k) == IF k = 0 THEN 1 ELSE 2 * Pow2(k - 1)

RECURSIVE BitLen(_)
BitLen(n) == IF n = 0 THEN 0 ELSE 1 + BitLen(n \div 2)

F32Nan == [ c |-> "nan", s |-> 0, m |-> 0, e |-> 0 ]

F32Inf(s) == [ c |-> "inf", s |-> s, m |-> 0, e |-> 0 ]

F32Zero(s) == [ c |-> "fin", s |-> s, m |-> 0, e |-> 0 ]

F32Fin(s, m, e) == [ c |-> "fin", s |-> s, m |-> m, e |-> e ]

IsZero(a) == a.c = "fin" /\ a.m = 0

XorSign(a, b) == (a.s + b.s) % 2

F32Round(s, S, e) ==
    IF S = 0 THEN F32Zero(s)
    ELSE LET n == BitLen(S)
         IN  IF n <= 24
             THEN F32Fin(s, S * Pow2(24 - n), e - (24 - n))
             ELSE LET k == n - 24
                      q == S \div Pow2(k)
                      r == S % Pow2(k)
                      half == Pow2(k - 1)
                      up == r > half \/ (r = half /\ q % 2 = 1)
                      m1 == IF up THEN q + 1 ELSE q
                  IN  IF m1 = Pow2(24)
                      THEN F32Fin(s, Pow2(23), e + k + 1)
                      ELSE F32Fin(s, m1, e + k)

F32FromInt(n) == IF n < 0 THEN F32Round(1, 0 - n, 0) ELSE F32Round(0, n, 0)

F32Neg(a) == IF a.c = "nan" THEN a ELSE [ a EXCEPT !.s = 1 - a.s ]

F32Add(a, b) ==
    IF a.c = "nan" \/ b.c = "nan" THEN F32Nan
    ELSE IF a.c = "inf"
         THEN IF b.c = "inf" /\ b.s # a.s THEN F32Nan ELSE a
    ELSE IF b.c = "inf" THEN b
    ELSE IF a.m = 0
         THEN IF b.m = 0 THEN F32Zero(IF a.s = 1 /\ b.s = 1 THEN 1 ELSE 0) ELSE b
    ELSE IF b.m = 0 THEN a
    ELSE LET aBig == a.e > b.e \/ (a.e = b.e /\ a.m >= b.m)
             big == IF aBig THEN a ELSE b
             small == IF aBig THEN b ELSE a
             d == big.e - small.e
             A == big.m * 8
             sh == small.m * 8
             fl == IF d > 27 THEN 0 ELSE sh \div Pow2(d)
             lost == IF d > 27 THEN TRUE ELSE sh % Pow2(d) # 0
             B == IF lost /\ fl % 2 = 0 THEN fl + 1 ELSE fl
             S == IF big.s = small.s THEN A + B ELSE A - B
         IN  IF S = 0 THEN F32Zero(0) ELSE F32Round(big.s, S, big.e - 3)

F32Sub(a, b) == F32Add(a, F32Neg(b))

F32Mul(a, b) ==
    IF a.c = "nan" \/ b.c = "nan" THEN F32Nan
    ELSE IF a.c = "inf" \/ b.c = "inf"
         THEN IF IsZero(a) \/ IsZero(b) THEN F32Nan ELSE F32Inf(XorSign(a, b))
    ELSE IF a.m = 0 \/ b.m = 0 THEN F32Zero(XorSign(a, b))
    ELSE LET ah == a.m \div 4096
             al == a.m % 4096
             bh == b.m \div 4096
             bl == b.m % 4096
             low == al * bl
             t1 == ah * bl + al * bh + (low \div 4096)
             H == ah * bh + (t1 \div 4096)
             R == (t1 % 4096) * 4096 + (low % 4096)
             g == R \div Pow2(22)
             st == IF R % Pow2(22) # 0 THEN 1 ELSE 0
         IN  F32Round(XorSign(a, b), H * 8 + g * 2 + st, a.e + b.e + 21)

RECURSIVE DivBits(_, _, _, _)
DivBits(r, dv, q, n) ==
    IF n = 0 THEN << q, r >>
    ELSE IF 2 * r >= dv THEN DivBits(2 * r - dv, dv, 2 * q + 1, n - 1)
         ELSE DivBits(2 * r, dv, 2 * q, n - 1)

F32Div(a, b) ==
    IF a.c = "nan" \/ b.c = "nan" THEN F32Nan
    ELSE IF a.c = "inf"
         THEN IF b.c = "inf" THEN F32Nan ELSE F32Inf(XorSign(a, b))
    ELSE IF b.c = "inf" THEN F32Zero(XorSign(a, b))
    ELSE IF b.m = 0
         THEN IF a.m = 0 THEN F32Nan ELSE F32Inf(XorSign(a, b))
    ELSE IF a.m = 0 THEN F32Zero(XorSign(a, b))
    ELSE LET qr == DivBits(a.m % b.m, b.m, a.m \div b.m, 25)
             st == IF qr[2] # 0 THEN 1 ELSE 0
         IN  F32Round(XorSign(a, b), 2 * qr[1] + st, a.e - b.e - 26)

RECURSIVE SqrtBits(_, _, _, _)
SqrtBits(N, k, rem, root) ==
    IF k < -13 THEN << root, rem >>
    ELSE LET pair == IF k >= 0 THEN (N \div Pow2(2 * k)) % 4 ELSE 0
             r2 == rem * 4 + pair
             trial == root * 4 + 1
         IN  IF r2 >= trial THEN SqrtBits(N, k - 1, r2 - trial, root * 2 + 1)
             ELSE SqrtBits(N, k - 1, r2, root * 2)

F32Sqrt(a) ==
    IF a.c = "nan" THEN F32Nan
    ELSE IF IsZero(a) THEN a
    ELSE IF a.s = 1 THEN F32Nan
    ELSE IF a.c = "inf" THEN a
    ELSE LET odd == a.e % 2 = 1
             N == IF odd THEN a.m * 2 ELSE a.m
             e2 == IF odd THEN a.e - 1 ELSE a.e
             rr == SqrtBits(N, 12, 0, 0)
             st == IF rr[2] # 0 THEN 1 ELSE 0
         IN  F32Round(0, 2 * rr[1] + st, (e2 \div 2) - 14)

F32Abs(a) == IF a.c = "nan" THEN a ELSE [ a EXCEPT !.s = 0 ]

\* a <= b
F32LessEq(a, b) ==
    LET d == F32Sub(a, b)
    IN  d.c # "nan" /\ (IsZero(d) \/ d.s = 1)

Vec3(x, y, z) == [ x |-> x, y |-> y, z |-> z ]

IntVec3(x, y, z) == Vec3(F32FromInt(x), F32FromInt(y), F32FromInt(z))

Vec3Add(a, b) == Vec3(F32Add(a.x, b.x), F32Add(a.y, b.y), F32Add(a.z, b.z))

Vec3Sub(a, b) == Vec3(F32Sub(a.x, b.x), F32Sub(a.y, b.y), F32Sub(a.z, b.z))

Vec3Scale(a, k) == Vec3(F32Mul(a.x, k), F32Mul(a.y, k), F32Mul(a.z, k))

\* glm::dot: the products, then x + y + z.
dot(a, b) ==
    F32Add(F32Add(F32Mul(a.x, b.x), F32Mul(a.y, b.y)), F32Mul(a.z, b.z))

\* glm::cross
cross(a, b) ==
    Vec3(F32Sub(F32Mul(a.y, b.z), F32Mul(b.y, a.z)),
         F32Sub(F32Mul(a.z, b.x), F32Mul(b.z, a.x)),
         F32Sub(F32Mul(a.x, b.y), F32Mul(b.x, a.y)))

\* glm::inversesqrt: 1 / sqrt(x)
inversesqrt(x) == F32Div(F32FromInt(1), F32Sqrt(x))

\* glm::normalize: v * inversesqrt(dot(v, v)); nothing is done about a vector
\* of length 0.
normalize(v) == Vec3Scale(v, inversesqrt(dot(v, v)))

\* glm::length
length(v) == F32Sqrt(dot(v, v))

HasNaN(v) == v.x.c = "nan" \/ v.y.c = "nan" \/ v.z.c = "nan"

\* makeCameraParams, the fields that do not depend on the field of view, the
\* focus distance and the extent: originLens.xyz, u, v, w.
makeCameraParams_UpAsV(camPos, camDir) ==
    LET lookFrom == camPos
        direction == normalize(camDir)
        lookAt == Vec3Add(lookFrom, direction)
        vup == IntVec3(0, 1, 0)
        w == normalize(Vec3Sub(lookFrom, lookAt))
        u == normalize(cross(vup, w))
    IN  [ v |-> vup, w |-> w, u |-> u, origin |-> lookFrom ]

makeCameraParams(camPos, camDir) ==
    LET lookFrom == camPos
        direction == normalize(camDir)
        lookAt == Vec3Add(lookFrom, direction)
        vup == IntVec3(0, 1, 0)
        w == normalize(Vec3Sub(lookFrom, lookAt))
        u == normalize(cross(vup, w))
        v == cross(w, u)
    IN  [ v |-> v, w |-> w, u |-> u, origin |-> lookFrom ]

\* No GPUParams was written yet.
NoCamera == [ origin |-> "none" ]

\* glm::vec3 mCamPos{ 13.0f, 2.0f, 3.0f }
CamPosInitial == IntVec3(13, 2, 3)

\* create: glm::vec3 lookAt{ 0.0f, 1.0f, 0.0f }
CreateLookAt == IntVec3(0, 1, 0)

\* create: mCamDir = glm::normalize(lookAt - mCamPos)
CamDirCreated == normalize(Vec3Sub(CreateLookAt, CamPosInitial))

CameraCreated ==
    /\ mCamPos = CamPosInitial
    /\ mCamDir = CamDirCreated
    /\ paramsCamera = NoCamera

\* ------------------------------------------------ App::run: camera input
\* The camera locals of App::run and what the loop does with the ESC key, the
\* cursor and the movement keys.  Cursor coordinates are whole pixels; yaw,
\* pitch and the vectors are binary32.

\* a < b
F32Less(a, b) ==
    LET d == F32Sub(a, b)
    IN  d.c # "nan" /\ ~IsZero(d) /\ d.s = 1

\* static_cast<float>(57.295779513082320876798154814105), of glm::degrees.
DegreesPerRadian == F32Fin(0, 15019745, -18)

\* static_cast<float>(0.01745329251994329576923690768489), of glm::radians.
RadiansPerDegree == F32Fin(0, 9370165, -29)

\* const float sensitivity = 0.1f
sensitivity == F32Fin(0, 13421773, -27)

\* std::atan2 and std::asin on float, at the arguments App::run calls them
\* with: camDir.z, camDir.x and camDir.y of the initial direction.  The value is
\* the float nearest to the exact result.
atan2f(y, x) ==
    CASE y = F32Fin(1, 15047856, -26) /\ x = F32Fin(1, 16301844, -24) ->
           F32Fin(1, 12225531, -22)

asinf(x) ==
    CASE x = F32Fin(1, 10031904, -27) ->
           F32Fin(1, 10041268, -27)

\* cosf at the angles the mouse look of the model reaches: the float nearest
\* to the exact cosine.  An angle outside the table stops the check.
cosf(x) ==
    CASE x = F32Fin(1, 15995361, -21) -> F32Fin(0, 15090086, -26)
      [] x = F32Fin(1, 12701162, -21) -> F32Fin(0, 16347570, -24)
      [] x = F32Fin(1, 10039491, -21) -> F32Fin(0, 10031917, -27)
      [] x = F32Fin(1, 9845994, -21) -> F32Fin(1, 9369630, -29)
      [] x = F32Fin(1, 9406964, -21) -> F32Fin(1, 15090076, -26)
      [] x = F32Fin(1, 13490584, -22) -> F32Fin(1, 16730287, -24)
      [] x = F32Fin(1, 13103590, -22) -> F32Fin(1, 16774661, -24)
      [] x = F32Fin(1, 12225531, -22) -> F32Fin(1, 16347571, -24)
      [] x = F32Fin(1, 12225530, -22) -> F32Fin(1, 16347570, -24)
      [] x = F32Fin(1, 13804374, -23) -> F32Fin(1, 10031906, -27)
      [] x = F32Fin(1, 13030386, -23) -> F32Fin(0, 9369677, -29)
      [] x = F32Fin(1, 11274268, -23) -> F32Fin(0, 15090066, -26)
      [] x = F32Fin(1, 11274266, -23) -> F32Fin(0, 15090082, -26)
      [] x = F32Fin(1, 10041268, -27) -> F32Fin(0, 16730287, -24)
      [] x = F32Fin(1, 10041265, -27) -> F32Fin(0, 16730287, -24)
      [] x = F32Fin(1, 9370165, -29) -> F32Fin(0, 16774661, -24)
      [] x = F32Fin(0, 9370165, -29) -> F32Fin(0, 16774661, -24)
      [] x = F32Fin(0, 15220209, -26) -> F32Fin(0, 16347572, -24)
      [] x = F32Fin(0, 12549215, -23) -> F32Fin(0, 10031910, -27)
      [] x = F32Fin(0, 13030386, -23) -> F32Fin(0, 9369677, -29)
      [] x = F32Fin(0, 13323203, -23) -> F32Fin(1, 9369660, -29)
      [] x = F32Fin(0, 15079321, -23) -> F32Fin(1, 15090064, -26)
      [] x = F32Fin(0, 12863005, -22) -> F32Fin(1, 16730287, -24)
      [] x = F32Fin(0, 13103590, -22) -> F32Fin(1, 16774661, -24)
      [] x = F32Fin(0, 9725701, -21) -> F32Fin(1, 10031914, -27)

\* sinf, likewise.
sinf(x) ==
    CASE x = F32Fin(1, 15995361, -21) -> F32Fin(1, 16347570, -24)
      [] x = F32Fin(1, 12701162, -21) -> F32Fin(0, 15090096, -26)
      [] x = F32Fin(1, 10039491, -21) -> F32Fin(0, 16730287, -24)
      [] x = F32Fin(1, 9845994, -21) -> F32Fin(0, 16774661, -24)
      [] x = F32Fin(1, 9406964, -21) -> F32Fin(0, 16347571, -24)
      [] x = F32Fin(1, 13490584, -22) -> F32Fin(0, 10031896, -27)
      [] x = F32Fin(1, 13103590, -22) -> F32Fin(1, 9369717, -29)
      [] x = F32Fin(1, 12225531, -22) -> F32Fin(1, 15090071, -26)
      [] x = F32Fin(1, 12225530, -22) -> F32Fin(1, 15090087, -26)
      [] x = F32Fin(1, 13804374, -23) -> F32Fin(1, 16730287, -24)
      [] x = F32Fin(1, 13030386, -23) -> F32Fin(1, 16774661, -24)
      [] x = F32Fin(1, 11274268, -23) -> F32Fin(1, 16347572, -24)
      [] x = F32Fin(1, 11274266, -23) -> F32Fin(1, 16347571, -24)
      [] x = F32Fin(1, 10041268, -27) -> F32Fin(1, 10031904, -27)
      [] x = F32Fin(1, 10041265, -27) -> F32Fin(1, 10031901, -27)
      [] x = F32Fin(1, 9370165, -29) -> F32Fin(1, 9369689, -29)
      [] x = F32Fin(0, 9370165, -29) -> F32Fin(0, 9369689, -29)
      [] x = F32Fin(0, 15220209, -26) -> F32Fin(0, 15090062, -26)
      [] x = F32Fin(0, 12549215, -23) -> F32Fin(0, 16730287, -24)
      [] x = F32Fin(0, 13030386, -23) -> F32Fin(0, 16774661, -24)
      [] x = F32Fin(0, 13323203, -23) -> F32Fin(0, 16774661, -24)
      [] x = F32Fin(0, 15079321, -23) -> F32Fin(0, 16347572, -24)
      [] x = F32Fin(0, 12863005, -22) -> F32Fin(0, 10031904, -27)
      [] x = F32Fin(0, 13103590, -22) -> F32Fin(0, 9369717, -29)
      [] x = F32Fin(0, 9725701, -21) -> F32Fin(1, 16730287, -24)

\* glm::degrees
degrees(r) == F32Mul(r, DegreesPerRadian)

\* glm::radians
radians(d) == F32Mul(d, RadiansPerDegree)

\* const float moveSpeed = 5.0f
moveSpeed == F32FromInt(5)

\* The mouse look without the clamp.
clampPitch_Unclamped(pitch) == pitch

\* pitch = std::clamp(pitch, -89.0f, 89.0f): (v < lo) ? lo : (hi < v) ? hi : v
clampPitch(pitch) ==
    IF F32Less(pitch, F32FromInt(-89)) THEN F32FromInt(-89)
    ELSE IF F32Less(F32FromInt(89), pitch) THEN F32FromInt(89)
    ELSE pitch

\* App::run's camera state before the loop.  History: changes, the iterations
\* that changed the camera so far; held, for how many iterations in a row ESC
\* has been down (followed up to 2); ignored, whether keys were down and the
\* cursor had moved in the iteration under way while the camera was paused.
InputCreated ==
    LET camPos == IntVec3(13, 2, 3)
        camDir == normalize(Vec3Sub(IntVec3(0, 1, 0), camPos))
    IN  input = [ camPos         |-> camPos,
                  camDir         |-> camDir,
                  pitch          |-> degrees(asinf(camDir.y)),
                  yaw            |-> degrees(atan2f(camDir.z, camDir.x)),
                  lastX          |-> windowWidth \div 2,
                  lastY          |-> windowHeight \div 2,
                  firstMouse     |-> TRUE,
                  cursorCaptured |-> TRUE,
                  cameraPaused   |-> FALSE,
                  escPrev        |-> FALSE,
                  changes        |-> 0,
                  held           |-> 0,
                  ignored        |-> FALSE ]

\* "Toggle pause with ESC": the pause flips when ESC is down and was not down
\* in the iteration before; pausing releases the cursor, resuming captures it
\* unless the UI wants the mouse.
togglePause(in, escPressed, wantCaptureMouse) ==
    LET toggled == escPressed /\ ~in.escPrev
        paused  == IF toggled THEN ~in.cameraPaused ELSE in.cameraPaused
        release == toggled /\ paused
        capture == toggled /\ ~paused /\ ~wantCaptureMouse
    IN  [ in EXCEPT
            !.cameraPaused   = paused,
            !.cursorCaptured = IF release THEN FALSE ELSE IF capture THEN TRUE ELSE @,
            !.firstMouse     = IF release \/ capture THEN TRUE ELSE @,
            !.escPrev        = escPressed,
            !.held           = IF escPressed THEN (IF @ < 2 THEN @ + 1 ELSE @) ELSE 0 ]

\* "Cursor capture toggle based on UI focus or pause."
cursorCapture(in, uiWantsMouse) ==
    IF (uiWantsMouse \/ in.cameraPaused) /\ in.cursorCaptured
    THEN [ in EXCEPT !.cursorCaptured = FALSE ]
    ELSE IF ~uiWantsMouse /\ ~in.cameraPaused /\ ~in.cursorCaptured
    THEN [ in EXCEPT !.cursorCaptured = TRUE, !.firstMouse = TRUE ]
    ELSE in

\* if (cursorCaptured && !cameraPaused)
mouseEnabled(in) == in.cursorCaptured /\ ~in.cameraPaused

\* "if (deltaX != 0.0 || deltaY != 0.0)" of the mouse look: the cursor is away
\* from the last sample, which the first sample after a capture replaces.
mouseMoved(in, cursorX, cursorY) ==
    /\ mouseEnabled(in)
    /\ ~in.firstMouse
    /\ (cursorX # in.lastX \/ cursorY # in.lastY)

\* "Mouse look": with the cursor captured and the camera not paused, a cursor
\* that moved since the last sample turns yaw and pitch, clamps the pitch and
\* sets camDir.
mouseLook(in, cursorX, cursorY) ==
    IF ~mouseEnabled(in)
    THEN in
    ELSE IF ~mouseMoved(in, cursorX, cursorY)
    THEN [ in EXCEPT !.firstMouse = FALSE, !.lastX = cursorX, !.lastY = cursorY ]
    ELSE LET deltaX   == cursorX - in.lastX
             deltaY   == in.lastY - cursorY
             yaw      == F32Add(in.yaw, F32Mul(F32FromInt(deltaX), sensitivity))
             pitch    == clampPitch(F32Add(in.pitch,
                                           F32Mul(F32FromInt(deltaY), sensitivity)))
             newDir(yawRad, pitchRad) ==
                 Vec3(F32Mul(cosf(pitchRad), cosf(yawRad)),
                      sinf(pitchRad),
                      F32Mul(cosf(pitchRad), sinf(yawRad)))
         IN  [ in EXCEPT
                 !.lastX  = cursorX,
                 !.lastY  = cursorY,
                 !.yaw    = yaw,
                 !.pitch  = pitch,
                 !.camDir = normalize(newDir(radians(yaw), radians(pitch))) ]

\* The keyboard move that does not ask whether the camera is paused.
keyboardEnabled_IgnoresPause(uiWantsKeyboard, cameraPaused) == ~uiWantsKeyboard

\* if (!uiWantsKeyboard && !cameraPaused)
keyboardEnabled(uiWantsKeyboard, cameraPaused) == ~uiWantsKeyboard /\ ~cameraPaused

\* A movement key is down while the keyboard moves the camera.
keyboardMoved(in, uiWantsKeyboard, keys) ==
    keyboardEnabled(uiWantsKeyboard, in.cameraPaused) /\ keys # { }

\* v * moveSpeed * static_cast<float>(deltaTime)
step(v, deltaTime) == Vec3Scale(Vec3Scale(v, moveSpeed), deltaTime)

\* "camPos += delta" if the key is down.
addIfDown(camPos, key, keys, delta) ==
    IF key \in keys THEN Vec3Add(camPos, delta) ELSE camPos

\* "camPos -= delta" if the key is down.
subIfDown(camPos, key, keys, delta) ==
    IF key \in keys THEN Vec3Sub(camPos, delta) ELSE camPos

\* The six keys in the order the loop asks for them.
moveKeys(camPos, keys, forward, right, up) ==
    subIfDown(
        addIfDown(
            addIfDown(
                subIfDown(
                    subIfDown(
                        addIfDown(camPos, "W", keys, forward),
                        "S", keys, forward),
                    "A", keys, right),
                "D", keys, right),
            "SPACE", keys, up),
        "LEFT_SHIFT", keys, up)

\* "Keyboard move": W, S along camDir, A, D along right, SPACE, LEFT_SHIFT
\* along up, each by moveSpeed * deltaTime.
keyboardMove(in, uiWantsKeyboard, keys, deltaTime) ==
    IF ~keyboardMoved(in, uiWantsKeyboard, keys)
    THEN in
    ELSE [ in EXCEPT !.camPos =
             moveKeys(in.camPos, keys,
                      step(in.camDir, deltaTime),
                      step(normalize(cross(in.camDir, IntVec3(0, 1, 0))), deltaTime),
                      step(IntVec3(0, 1, 0), deltaTime)) ]

\* ------------------------------------------ the scene and the GPU objects

VK_NULL_HANDLE == 0

Extent(width, height) == [ width |-> width, height |-> height ]

\* A GPUSphere: centerRadius.w in thousandths and misc.x, the material
\* (0 = lambert, 1 = metal, 2 = dielectric).
GPUSphere(radius, material) == [ radius |-> radius, material |-> material ]

\* buildScene without "mSpheres.clear()".
buildScene_NoClear(spheres) ==
    spheres \o << GPUSphere(1000000, 0), GPUSphere(1000, 0), GPUSphere(1000, 2),
                  GPUSphere(1000, 1), GPUSphere(500, 1) >>

\* RayTracer::buildScene: clear, then push_back of ground, center, left, right
\* and mirror.
buildScene(spheres) ==
    LET cleared == << >>
        ground == GPUSphere(1000000, 0)
        center == GPUSphere(1000, 0)
        left   == GPUSphere(1000, 2)
        right  == GPUSphere(1000, 1)
        mirror == GPUSphere(500, 1)
    IN  Append(Append(Append(Append(Append(cleared, ground), center), left),
                      right), mirror)

\* The device without any object of the tracer.
NoObjects == [ images |-> { }, views |-> { }, buffers |-> { }, pools |-> { } ]

\* vkDestroyImageView, vmaDestroyImage, vmaDestroyBuffer, vkDestroyDescriptorPool.
Destroy(dev, kind, h) == [ dev EXCEPT ![kind] = { o \in @ : o.h # h } ]

Freed(kind, h) == [ kind |-> kind, h |-> h ]

\* RayTracer::uploadScene: a buffer of sizeof(GPUSphere) * mSpheres.size()
\* bytes, filled from mSpheres.
uploadScene(dev, h, spheres) ==
    [ mSphereBuffer |-> h,
      device        |-> [ dev EXCEPT !.buffers =
                            @ \cup { [ h |-> h, use |-> "spheres",
                                       count |-> Len(spheres) ] } ] ]

\* RayTracer::createAccumulationImage: an image of the extent and its view.
createAccumulationImage(dev, h, e) ==
    [ mAccumImage |-> h,
      mAccumView  |-> h + 1,
      device      |-> [ dev EXCEPT
                          !.images = @ \cup { [ extent |-> e, h |-> h ] },
                          !.views  = @ \cup { [ h |-> h + 1, image |-> h ] } ] ]

\* createDescriptors with every set bound to the first swapchain image view.
createDescriptors_FirstView(dev, h, n, accumView, sphereBuffer) ==
    [ mDescriptorPool |-> h,
      mDescriptorSets |-> [ i \in Images(n) |->
                              [ accumView    |-> accumView,
                                sphereBuffer |-> sphereBuffer,
                                swapView     |-> 0,
                                paramsBuffer |-> h + 1 + i ] ],
      mParamsBuffers  |-> [ i \in Images(n) |-> h + 1 + i ],
      device          |-> [ dev EXCEPT
                              !.pools   = @ \cup { [ h |-> h ] },
                              !.buffers = @ \cup { [ h |-> h + 1 + i, use |-> "params",
                                                     count |-> 0 ] : i \in Images(n) } ] ]


\* RayTracer::createDescriptors: a pool, and per swapchain image a parameter
\* buffer and a descriptor set of the accumulation view, that image's view,
\* the sphere buffer and the parameter buffer.  mParamsBuffers is assigned
\* over; the buffers it held are not destroyed.
createDescriptors(dev, h, n, accumView, sphereBuffer) ==
    [ mDescriptorPool |-> h,
      mDescriptorSets |-> [ i \in Images(n) |->
                              [ accumView    |-> accumView,
                                sphereBuffer |-> sphereBuffer,
                                swapView     |-> i,
                                paramsBuffer |-> h + 1 + i ] ],
      mParamsBuffers  |-> [ i \in Images(n) |-> h + 1 + i ],
      device          |-> [ dev EXCEPT
                              !.pools   = @ \cup { [ h |-> h ] },
                              !.buffers = @ \cup { [ h |-> h + 1 + i, use |-> "params",
                                                     count |-> 0 ] : i \in Images(n) } ] ]

\* RayTracer::create for a swapchain of n images of extent e: buildScene,
\* uploadScene, createAccumulationImage, createDescriptors.  (The pipeline and
\* its layouts are created once and are not followed.)
ResourcesCreated(n, e) ==
    LET scene  == buildScene(<< >>)
        up     == uploadScene(NoObjects, 1, scene)
        accum  == createAccumulationImage(up.device, 2, e)
        desc   == createDescriptors(accum.device, 4, n, accum.mAccumView,
                                    up.mSphereBuffer)
    IN
    /\ extent = e
    /\ mSpheres = scene
    /\ mSphereBuffer = up.mSphereBuffer
    /\ mAccumImage = accum.mAccumImage
    /\ mAccumView = accum.mAccumView
    /\ mDescriptorPool = desc.mDescriptorPool
    /\ mDescriptorSets = desc.mDescriptorSets
    /\ mParamsBuffers = desc.mParamsBuffers
    /\ paramsSphereCount = [ i \in Images(n) |-> NoFrame ]
    /\ dispatchGroups = Extent(NoFrame, NoFrame)
    /\ device = desc.device
    /\ nextHandle = 5 + n
    /\ freed = << >>
    /\ resizes = 0

\* The members as RayTracer's initializers leave them, before create.
ResourcesNotCreated(e) ==
    /\ extent = e
    /\ mSpheres = << >>
    /\ mSphereBuffer = VK_NULL_HANDLE
    /\ mAccumImage = VK_NULL_HANDLE
    /\ mAccumView = VK_NULL_HANDLE
    /\ mDescriptorPool = VK_NULL_HANDLE
    /\ mDescriptorSets = << >>
    /\ mParamsBuffers = << >>
    /\ paramsSphereCount = << >>
    /\ dispatchGroups = Extent(NoFrame, NoFrame)
    /\ device = NoObjects
    /\ nextHandle = 1
    /\ freed = << >>
    /\ resizes = 0

\* The start of resize with the image left alive.
destroyAccumulation_ViewOnly(dev, view, image) ==
    [ device |-> IF view # VK_NULL_HANDLE THEN Destroy(dev, "views", view) ELSE dev,
      freed  |-> IF view # VK_NULL_HANDLE THEN << Freed("views", view) >> ELSE << >> ]

\* if (mAccumView) vkDestroyImageView; if (mAccumImage && mAccumAlloc)
\* vmaDestroyImage.
destroyAccumulation(dev, view, image) ==
    LET d1 == IF view # VK_NULL_HANDLE THEN Destroy(dev, "views", view) ELSE dev
        f1 == IF view # VK_NULL_HANDLE THEN << Freed("views", view) >> ELSE << >>
        d2 == IF image # VK_NULL_HANDLE THEN Destroy(d1, "images", image) ELSE d1
        f2 == IF image # VK_NULL_HANDLE THEN << Freed("images", image) >> ELSE << >>
    IN  [ device |-> d2, freed |-> f1 \o f2 ]

\* RayTracer::resize for the recreated swapchain of n images of extent e: what
\* it does to the objects.
ResourcesResized(n, e) ==
    LET gone   == destroyAccumulation(device, mAccumView, mAccumImage)
        d3     == IF mDescriptorPool # VK_NULL_HANDLE
                  THEN Destroy(gone.device, "pools", mDescriptorPool)
                  ELSE gone.device
        f3     == IF mDescriptorPool # VK_NULL_HANDLE
                  THEN << Freed("pools", mDescriptorPool) >>
                  ELSE << >>
        accum  == createAccumulationImage(d3, nextHandle, e)
        desc   == createDescriptors(accum.device, nextHandle + 2, n,
                                    accum.mAccumView, mSphereBuffer)
    IN
    /\ extent' = e
    /\ mAccumImage' = accum.mAccumImage
    /\ mAccumView' = accum.mAccumView
    /\ mDescriptorPool' = desc.mDescriptorPool
    /\ mDescriptorSets' = desc.mDescriptorSets
    /\ mParamsBuffers' = desc.mParamsBuffers
    /\ paramsSphereCount' = [ i \in Images(n) |-> NoFrame ]
    /\ device' = desc.device
    /\ nextHandle' = nextHandle + 3 + n
    /\ freed' = gone.freed \o f3
    /\ resizes' = resizes + 1
    /\ dispatchGroups' = Extent(NoFrame, NoFrame)
    /\ UNCHANGED << mSpheres, mSphereBuffer >>

\* uint32_t groupX = (extent.width + 7) / 8, and groupY of the height.
GroupCount(size) == U32Div8(U32Add(size, 7))

\* updateParams that leaves the sphere count of the slot at 0.
ResourcesRendered_NoCount(swapImageIndex) ==
    /\ paramsSphereCount' = [ paramsSphereCount EXCEPT ![swapImageIndex] = U32Zero ]
    /\ dispatchGroups' = Extent(GroupCount(extent.width), GroupCount(extent.height))
    /\ freed' = << >>
    /\ UNCHANGED << extent, mSpheres, mSphereBuffer, mAccumImage, mAccumView,
                    mDescriptorPool, mDescriptorSets, mParamsBuffers, device,
                    nextHandle, resizes >>

\* RayTracer::render on image slot i: updateParams writes mSpheres.size() into
\* the slot, and the dispatch is recorded with the two group counts.
ResourcesRendered(swapImageIndex) ==
    /\ paramsSphereCount' = [ paramsSphereCount EXCEPT
                                ![swapImageIndex] = U32(0, Len(mSpheres)) ]
    /\ dispatchGroups' = Extent(GroupCount(extent.width), GroupCount(extent.height))
    /\ freed' = << >>
    /\ UNCHANGED << extent, mSpheres, mSphereBuffer, mAccumImage, mAccumView,
                    mDescriptorPool, mDescriptorSets, mParamsBuffers, device,
                    nextHandle, resizes >>

\* RayTracer::create, on the member initializers of RayTracer.h; the focus
\* distance is the distance from mCamPos (13, 2, 3) to lookAt (0, 1, 0).
TracerCreated(n) ==
    /\ mResetAccum = TRUE
    /\ mAccumInitialized = FALSE
    /\ mSwapchainImageInitialized = [ i \in Images(n) |-> FALSE ]
    /\ mParamsMapped = [ i \in Images(n) |-> NoFrame ]
    /\ mVerticalFov = F(20000)
    /\ mMaxDepth = U32(0, 12)
    /\ mFocusDistance = F(13379)

\* resize without "mResetAccum = true".
TracerResize_KeepsResetFlag(n) ==
    /\ mResetAccum' = mResetAccum
    /\ mAccumInitialized' = FALSE
    /\ mSwapchainImageInitialized' = [ i \in Images(n) |-> FALSE ]
    /\ mParamsMapped' = [ i \in Images(n) |-> NoFrame ]

\* resize that only grows or shrinks mSwapchainImageInitialized (resize(n)
\* instead of assign(n, false)).
TracerResize_KeepsSlotFlags(n) ==
    /\ mResetAccum' = TRUE
    /\ mAccumInitialized' = FALSE
    /\ mSwapchainImageInitialized' =
           [ i \in Images(n) |-> IF i \in DOMAIN mSwapchainImageInitialized
                                 THEN mSwapchainImageInitialized[i]
                                 ELSE FALSE ]
    /\ mParamsMapped' = [ i \in Images(n) |-> NoFrame ]

\* RayTracer::resize: the accumulation image, the descriptor pool and the
\* parameter slots are created anew for the n images of the new swapchain.
TracerResize(n) ==
    /\ mResetAccum' = TRUE
    /\ mAccumInitialized' = FALSE
    /\ mSwapchainImageInitialized' = [ i \in Images(n) |-> FALSE ]
    /\ mParamsMapped' = [ i \in Images(n) |-> NoFrame ]

\* clearAccum without "|| frameIndex == 0".
clearAccum_FlagOnly(reset, frameIndex) == reset

\* const bool clearAccum = mResetAccum || frameIndex == 0;
clearAccum(reset, frameIndex) == reset \/ frameIndex = U32Zero

\* Pipeline stages and access types named by the barriers.
STAGE_TOP_OF_PIPE == "TOP_OF_PIPE"

STAGE_TRANSFER == "TRANSFER"

STAGE_COMPUTE_SHADER == "COMPUTE_SHADER"

STAGE_COLOR_ATTACHMENT_OUTPUT == "COLOR_ATTACHMENT_OUTPUT"

ACCESS_TRANSFER_WRITE == "TRANSFER_WRITE"

ACCESS_SHADER_WRITE == "SHADER_WRITE"

ACCESS_SHADER_READ == "SHADER_READ"

ACCESS_COLOR_ATTACHMENT_WRITE == "COLOR_ATTACHMENT_WRITE"

ACCESS_COLOR_ATTACHMENT_READ == "COLOR_ATTACHMENT_READ"

\* A recorded vkCmdPipelineBarrier with one image memory barrier (the render
\* pass uses the same shape for its initialLayout / finalLayout).
Barrier(op, oldLayout, newLayout, srcStage, srcAccess, dstStage, dstAccess) ==
    [ op        |-> op,
      oldLayout |-> oldLayout,
      newLayout |-> newLayout,
      srcStage  |-> srcStage,
      srcAccess |-> srcAccess,
      dstStage  |-> dstStage,
      dstAccess |-> dstAccess ]

\* One recorded command that is no barrier: it uses the image in this layout.
Cmd(op, layout) == Barrier(op, layout, layout, { }, { }, { }, { })

\* accumToCompute that names only the clear (transfer) as its source, whether
\* or not the frame clears.
accumToCompute_TransferOnly(clear) ==
    Barrier("accumToCompute", LAYOUT_GENERAL, LAYOUT_GENERAL,
            { STAGE_TRANSFER }, { ACCESS_TRANSFER_WRITE },
            { STAGE_COMPUTE_SHADER },
            { ACCESS_SHADER_WRITE, ACCESS_SHADER_READ })

\* The accumulation barrier ahead of the dispatch.
accumToCompute(clear) ==
    Barrier("accumToCompute", LAYOUT_GENERAL, LAYOUT_GENERAL,
            IF clear
            THEN { STAGE_TRANSFER }
            ELSE { STAGE_TRANSFER, STAGE_COMPUTE_SHADER },
            IF clear
            THEN { ACCESS_TRANSFER_WRITE }
            ELSE { ACCESS_TRANSFER_WRITE, ACCESS_SHADER_WRITE, ACCESS_SHADER_READ },
            { STAGE_COMPUTE_SHADER },
            { ACCESS_SHADER_WRITE, ACCESS_SHADER_READ })

\* accumToClear that declares the GENERAL layout whether or not the image was
\* cleared before.
accumToClear_AlwaysGeneral(accumInit) ==
    Barrier("accumToClear", LAYOUT_GENERAL, LAYOUT_GENERAL,
            { STAGE_TRANSFER, STAGE_COMPUTE_SHADER },
            { ACCESS_TRANSFER_WRITE, ACCESS_SHADER_WRITE, ACCESS_SHADER_READ },
            { STAGE_TRANSFER }, { ACCESS_TRANSFER_WRITE })


\* The accumulation barrier ahead of the clear.
accumToClear(accumInit) ==
    Barrier("accumToClear",
            IF accumInit THEN LAYOUT_GENERAL ELSE LAYOUT_UNDEFINED,
            LAYOUT_GENERAL,
            IF accumInit
            THEN { STAGE_TRANSFER, STAGE_COMPUTE_SHADER }
            ELSE { STAGE_TOP_OF_PIPE },
            IF accumInit
            THEN { ACCESS_TRANSFER_WRITE, ACCESS_SHADER_WRITE, ACCESS_SHADER_READ }
            ELSE { },
            { STAGE_TRANSFER }, { ACCESS_TRANSFER_WRITE })

\* swapBarrier that always declares the presented layout.
swapBarrier_AlwaysPresented(swapInit) ==
    Barrier("swapBarrier", LAYOUT_PRESENT_SRC, LAYOUT_GENERAL,
            { STAGE_TOP_OF_PIPE }, { },
            { STAGE_COMPUTE_SHADER }, { ACCESS_SHADER_WRITE })

\* The transition of the acquired swapchain image for the compute write.
swapBarrier(swapInit) ==
    Barrier("swapBarrier",
            IF swapInit THEN LAYOUT_PRESENT_SRC ELSE LAYOUT_UNDEFINED,
            LAYOUT_GENERAL,
            { STAGE_TOP_OF_PIPE }, { },
            { STAGE_COMPUTE_SHADER }, { ACCESS_SHADER_WRITE })

\* The transition of the swapchain image for the UI render pass.
presentBarrier ==
    Barrier("presentBarrier", LAYOUT_GENERAL, LAYOUT_COLOR_ATTACHMENT,
            { STAGE_COMPUTE_SHADER }, { ACCESS_SHADER_WRITE },
            { STAGE_COLOR_ATTACHMENT_OUTPUT },
            { ACCESS_COLOR_ATTACHMENT_WRITE, ACCESS_COLOR_ATTACHMENT_READ })

\* The UI render pass: attachment initialLayout and finalLayout.
RenderPassCmd ==
    Barrier("renderPass", LAYOUT_COLOR_ATTACHMENT, LAYOUT_PRESENT_SRC,
            { }, { }, { }, { })

\* render that records the dispatch after the post-dispatch transition.
RenderCommands_DispatchLast(clear, accumInit, swapInit) ==
    ( IF clear
      THEN << accumToClear(accumInit), Cmd("clearAccum", LAYOUT_GENERAL) >>
      ELSE << >> )
    \o
    << swapBarrier(swapInit),
       accumToCompute(clear),
       presentBarrier,
       Cmd("dispatch", LAYOUT_GENERAL) >>

\* The commands RayTracer::render records, in order.
RenderCommands(clear, accumInit, swapInit) ==
    ( IF clear
      THEN << accumToClear(accumInit), Cmd("clearAccum", LAYOUT_GENERAL) >>
      ELSE << >> )
    \o
    << swapBarrier(swapInit),
       accumToCompute(clear),
       Cmd("dispatch", LAYOUT_GENERAL),
       presentBarrier >>

HasOp(cmds, op) == \E k \in 1 .. Len(cmds) : cmds[k].op = op

\* render without "mResetAccum = false" after the clear.
TracerRender_KeepsResetFlag(slot, swapImageIndex, frameIndex) ==
    LET clear == clearAccum(mResetAccum, frameIndex) IN
    /\ mParamsMapped' = [ mParamsMapped EXCEPT ![swapImageIndex] = frameIndex ]
    /\ cmdBuf' = [ cmdBuf EXCEPT ![slot] =
                     RenderCommands(clear, mAccumInitialized,
                                    mSwapchainImageInitialized[swapImageIndex]) ]
    /\ mAccumInitialized' = IF clear THEN TRUE ELSE mAccumInitialized
    /\ mResetAccum' = mResetAccum
    /\ mSwapchainImageInitialized' =
           [ mSwapchainImageInitialized EXCEPT ![swapImageIndex] = TRUE ]

\* RayTracer::render(commandBuffer of slot, swapImageIndex, frameIndex),
\* updateParams included.
TracerRender(slot, swapImageIndex, frameIndex) ==
    LET clear == clearAccum(mResetAccum, frameIndex) IN
    /\ mParamsMapped' = [ mParamsMapped EXCEPT ![swapImageIndex] = frameIndex ]
    /\ cmdBuf' = [ cmdBuf EXCEPT ![slot] =
                     RenderCommands(clear, mAccumInitialized,
                                    mSwapchainImageInitialized[swapImageIndex]) ]
    /\ mAccumInitialized' = IF clear THEN TRUE ELSE mAccumInitialized
    /\ mResetAccum' = IF clear THEN FALSE ELSE mResetAccum
    /\ mSwapchainImageInitialized' =
           [ mSwapchainImageInitialized EXCEPT ![swapImageIndex] = TRUE ]

\* A setter without "mResetAccum = true".
SetterResetAccum_Forgotten(reset) == reset

\* setSamplesPerPixel, setAperture, setFocusDistance (of a slider value, which
\* is positive), setFov, setMaxDepth, setCamera: mResetAccum after the call.
SetterResetAccum(reset) == TRUE

\* The latest call on the RayTracer: the argument the claims are about, and the
\* reset flag and the focus distance before the call.
Call(op, arg) ==
    [ op |-> op, arg |-> arg, resetBefore |-> mResetAccum,
      focusBefore |-> mFocusDistance,
      imageBefore |-> mAccumImage, viewBefore |-> mAccumView ]

\* ------------------------------------------------------------------ Init

\* ---- VulkanContext: the per-frame synchronization objects

FrameSync(imageAvailable, renderFinished, fence) ==
    [ inFlight |-> fence, imageAvailable |-> imageAvailable,
      renderFinished |-> renderFinished ]

SyncObject(kind, h) == [ kind |-> kind, h |-> h ]

\* createSyncObjects: per slot one semaphore, stored in imageAvailable, and one
\* fence, created signaled; renderFinished keeps its member initializer.
createSyncObjects(framesInFlight) ==
    [ mFrames |-> [ i \in 0 .. (framesInFlight - 1) |->
                      FrameSync(2 * i + 1, VK_NULL_HANDLE, 2 * i + 2) ],
      syncObjects |-> UNION { { SyncObject("semaphore", 2 * i + 1),
                                SyncObject("fence", 2 * i + 2) } :
                              i \in 0 .. (framesInFlight - 1) } ]

\* VulkanContext::destroy, the synchronization objects: per slot the fence and
\* the imageAvailable semaphore are destroyed if set, then mFrames is cleared.
destroySyncObjects(frames, objects) ==
    objects \ UNION { { SyncObject("fence", frames[i].inFlight),
                        SyncObject("semaphore", frames[i].imageAvailable) } :
                      i \in DOMAIN frames }

SyncCreated ==
    LET made == createSyncObjects(maxFramesInFlight)
    IN  /\ mFrames = made.mFrames
        /\ syncObjects = made.syncObjects
        /\ semaphores = [ o \in { x \in made.syncObjects : x.kind = "semaphore" }
                            |-> FALSE ]
        /\ presents = << >>

\* ------------------------------------- the device and its other objects

\* An object created from the device by App::run's setup or by the Swapchain.
\* h is << generation of the swapchain, index >>; objects made once have
\* generation 0.
ContextObject(kind, h) == [ kind |-> kind, h |-> h ]

\* Swapchain::create, the g-th of the run, for n images: createSwapchain,
\* createImageViews, createRenderPass, createFramebuffers.
swapchainCreate(g, n) ==
    { ContextObject("swapchain", << g, 0 >>),
      ContextObject("renderPass", << g, 0 >>) }
        \cup { ContextObject("imageView", << g, i >>) : i \in Images(n) }
        \cup { ContextObject("framebuffer", << g, i >>) : i \in Images(n) }

\* createImguiPool: the descriptor pool of the UI.
createImguiPool == ContextObject("descriptorPool", << 0, 0 >>)

\* createCommandPoolsAndBuffers: one command pool per frame slot.
cmdPool(slot) == ContextObject("commandPool", << 0, slot >>)

\* The device after App::run's setup for a swapchain of n images.  bundle is
\* what mSwapchainBundle holds.  History: orphans, what existed when
\* vkDestroyDevice was called; twice, what was destroyed when it existed no
\* more; used, whether a frame was submitted since the objects were made;
\* retired, whether objects a submitted frame referenced were destroyed;
\* idle, whether an idle-wait succeeded and nothing was submitted since;
\* lastWait, the result of the latest idle-wait.
ContextCreated ==
    context = [ objects    |-> swapchainCreate(1, imageCount)
                                 \cup { createImguiPool }
                                 \cup { cmdPool(i) : i \in 0 .. (maxFramesInFlight - 1) },
                mDevice    |-> TRUE,
                bundle     |-> swapchainCreate(1, imageCount),
                generation |-> 1,
                orphans    |-> [ context |-> { }, sync |-> { }, tracer |-> { } ],
                twice      |-> { },
                used       |-> FALSE,
                retired    |-> FALSE,
                idle       |-> TRUE,
                lastWait   |-> "VK_SUCCESS" ]

\* The device's other objects are followed by ExitSpec only; the other
\* specifications leave them out.
ContextNotFollowed ==
    context = [ objects    |-> { },
                mDevice    |-> TRUE,
                bundle     |-> { },
                generation |-> 1,
                orphans    |-> [ context |-> { }, sync |-> { }, tracer |-> { } ],
                twice      |-> { },
                used       |-> FALSE,
                retired    |-> FALSE,
                idle       |-> TRUE,
                lastWait   |-> "VK_SUCCESS" ]

\* The state after App::run's setup, but for the objects of the tracer, for a
\* swapchain whose image count is one of counts.
InitState(counts) ==
    /\ pc = "poll"
    /\ currentFrame = 0
    /\ sampleFrame = U32Zero
    /\ imageIndex = 0
    /\ imageCount \in counts
    /\ SyncCreated
    /\ CameraCreated
    /\ uiFrame = "ended"
    /\ InputCreated
    /\ TracerCreated(imageCount)
    /\ mSamplesPerPixel = SamplesPerPixelStored(U32(0, 4))
    /\ mAperture = ApertureStored(F(50))
    /\ inFlight = [ f \in FrameSlots |-> TRUE ]
    /\ cmdBuf = [ f \in FrameSlots |-> << >> ]
    /\ queue = << >>
    /\ frame = NewFrame("none", FALSE)
    /\ hist = InitHist

InitLoop == InitState(ImageCounts)

\* The window is created windowWidth by windowHeight.
Init ==
    /\ InitLoop
    /\ ResourcesNotCreated(Extent(U32(0, windowWidth), U32(0, windowHeight)))
    /\ ContextNotFollowed
    /\ lastCall = Call("create", F(0))

\* ------------------------------------------------------------ the UI frame

\* ImGui_ImplVulkan_NewFrame, ImGui_ImplGlfw_NewFrame, ImGui::NewFrame: a UI
\* frame is begun; the frame before must have been finished.
NewFrameUi(ui) == IF ui = "ended" THEN "begun" ELSE "begunTwice"

\* ImGui::Render finishes the UI frame.
RenderUi(ui) == "ended"

\* --------------------------------------------------------------- App::run

\* Frames are stepped one at a time while sampleFrame is small or about to wrap.
Stepped(s) == (s.hi = 0 /\ s.lo <= MaxSampleFrame) \/ s = UINT32_MAX

\* swapchain.recreate + tracer.resize + "sampleFrame = 0": the recovery of all
\* three paths.  Both begin with a device idle-wait.
Recreate(path) ==
    /\ queue = << >>
    /\ imageCount' \in ImageCounts
    /\ TracerResize(imageCount')
    /\ hist' = [ CountInval(hist, FALSE) EXCEPT
                   !.clearedSinceCreate = FALSE,
                   !.recreatedSinceRender = @ \cup { path },
                   !.accumUsed = FALSE,
                   !.recordedImages = { },
                   !.imageLayout = [ i \in Images(imageCount') |-> LAYOUT_UNDEFINED ] ]

\* VkResult values of the calls whose failure the loop does not recover from.
VK_SUCCESS == "VK_SUCCESS"

VK_ERROR_DEVICE_LOST == "VK_ERROR_DEVICE_LOST"

VkResults == { VK_SUCCESS, VK_ERROR_DEVICE_LOST }

\* RayTracer::resize calls vkDeviceWaitIdle without VK_CHECK: whatever it
\* returns, resize goes on.  The call is remembered when it returned an error.
UncheckedWaitIdle(result) == IF result = VK_SUCCESS THEN "none" ELSE "tracerWaitIdle"

\* VK_CHECK throws: std::runtime_error unwinds to the catch in App::run, which
\* logs and returns EXIT_FAILURE.
Throw(call) ==
    /\ pc' = "failed"
    /\ frame' = [ frame EXCEPT !.failed = call ]
    /\ UNCHANGED << currentFrame, sampleFrame, imageIndex, mResetAccum,
                    mAccumInitialized, mSwapchainImageInitialized, mParamsMapped,
                    imageCount, inFlight, cmdBuf, queue, hist >>
    /\ UNCHANGED << settings, resources, sync, cameraState, context, uiFrame, input >>

\* The resize check placed after the fence wait and reset.
HandleResize_AfterFenceReset ==
    /\ pc = "poll"
    /\ Recreate("resize")
    /\ sampleFrame' = U32Zero
    /\ \E result \in VkResults :
         frame' = [ NewFrame("resize", FALSE) EXCEPT
                      !.failed = UncheckedWaitIdle(result) ]
    /\ inFlight' = [ inFlight EXCEPT ![currentFrame] = FALSE ]
    /\ UNCHANGED << pc, currentFrame, imageIndex, cmdBuf, queue >>
    /\ UNCHANGED << settings, resources, sync, cameraState, context, uiFrame, input >>

\* window.poll(); framebufferResized() is set: recreate and skip the iteration.
HandleResize ==
    /\ pc = "poll"
    /\ Recreate("resize")
    /\ sampleFrame' = U32Zero
    /\ \E result \in VkResults :
         frame' = [ NewFrame("resize", FALSE) EXCEPT
                      !.failed = UncheckedWaitIdle(result) ]
    /\ UNCHANGED << pc, currentFrame, imageIndex, inFlight, cmdBuf, queue >>
    /\ UNCHANGED << settings, resources, sync, cameraState, context, uiFrame, input >>

\* vulkanContext.waitIdle() at the start of Swapchain::recreate returns an
\* error: VK_CHECK throws, on each of the three recreation paths.
RecreateFails ==
    /\ \/ pc = "poll"
       \/ pc = "recreateAfterAcquire"
       \/ pc = "recreateAfterPresent"
    /\ Throw("waitIdle")

\* window.poll(); no resize pending: UI NewFrame, mouse look and keyboard
\* move; a camera change calls setCamera and zeroes sampleFrame.
BeginFrame ==
    /\ pc = "poll"
    /\ \E camChanged \in BOOLEAN :
         /\ camChanged \/ Stepped(sampleFrame)
         /\ mResetAccum' = IF camChanged THEN SetterResetAccum(mResetAccum) ELSE mResetAccum
         /\ sampleFrame' = IF camChanged THEN U32Zero ELSE sampleFrame
         /\ hist' = IF camChanged THEN CountInval(hist, TRUE) ELSE hist
         /\ frame' = NewFrame("frame", camChanged)
    /\ pc' = "wait"
    /\ uiFrame' = NewFrameUi(uiFrame)
    /\ UNCHANGED << currentFrame, imageIndex, mAccumInitialized,
                    mSwapchainImageInitialized, mParamsMapped, imageCount,
                    inFlight, cmdBuf, queue >>
    /\ UNCHANGED << settings, resources, sync, cameraState, context, input >>

\* vkWaitForFences that returns without the fence being signaled.
FenceWaitReturns_NoWait(f) == TRUE

\* vkWaitForFences(..., VK_TRUE, UINT64_MAX) returns once the fence is signaled.
FenceWaitReturns(f) == inFlight[f]

\* vkWaitForFences on the slot's fence, then vkResetFences.
WaitFence ==
    /\ pc = "wait"
    /\ FenceWaitReturns(currentFrame)
    /\ inFlight' = [ inFlight EXCEPT ![currentFrame] = FALSE ]
    /\ pc' = "acquire"
    /\ UNCHANGED << currentFrame, sampleFrame, imageIndex, mResetAccum,
                    mAccumInitialized, mSwapchainImageInitialized, mParamsMapped,
                    imageCount, cmdBuf, queue, frame, hist >>
    /\ UNCHANGED << settings, resources, sync, cameraState, context, uiFrame, input >>

\* vkWaitForFences or vkResetFences returns an error: VK_CHECK throws.
FenceFails ==
    /\ pc = "wait"
    /\ Throw("fence")

\* acquireNextImage returns VK_SUCCESS and an image index.
AcquireImage ==
    /\ pc = "acquire"
    /\ imageIndex' \in Images(imageCount)
    /\ pc' = "record"
    /\ UNCHANGED << currentFrame, sampleFrame, mResetAccum, mAccumInitialized,
                    mSwapchainImageInitialized, mParamsMapped, imageCount,
                    inFlight, cmdBuf, queue, frame, hist >>
    /\ UNCHANGED << settings, resources, sync, cameraState, context, uiFrame, input >>

\* acquireNextImage returns VK_ERROR_OUT_OF_DATE_KHR.
AcquireOutOfDate ==
    /\ pc = "acquire"
    /\ pc' = "recreateAfterAcquire"
    /\ UNCHANGED << currentFrame, sampleFrame, imageIndex, mResetAccum,
                    mAccumInitialized, mSwapchainImageInitialized, mParamsMapped,
                    imageCount, inFlight, cmdBuf, queue, frame, hist >>
    /\ UNCHANGED << settings, resources, sync, cameraState, context, uiFrame, input >>

RecreateAfterAcquire ==
    /\ pc = "recreateAfterAcquire"
    /\ Recreate("acquire")
    /\ sampleFrame' = U32Zero
    /\ \E result \in VkResults :
         frame' = [ frame EXCEPT !.kind = "acquireOutOfDate",
                                 !.failed = UncheckedWaitIdle(result) ]
    /\ pc' = "poll"
    /\ UNCHANGED << currentFrame, imageIndex, inFlight, cmdBuf, queue >>
    /\ UNCHANGED << settings, resources, sync, cameraState, context, uiFrame, input >>

\* Any other acquire result (VK_SUBOPTIMAL_KHR included) makes VK_CHECK throw.
AcquireFails ==
    /\ pc = "acquire"
    /\ Throw("acquire")

\* vkResetCommandBuffer or vkBeginCommandBuffer (before render), or
\* vkEndCommandBuffer (after the render pass) returns an error: VK_CHECK throws.
RecordFails ==
    /\ pc \in { "record", "ui" }
    /\ Throw("commandBuffer")

\* Commands that change the layout of the acquired swapchain image.
SwapImageOps == { "swapBarrier", "presentBarrier", "renderPass" }

\* The layout the swapchain image is in after cmds, having been in layout before.
LayoutAfter(cmds, layout) ==
    LET ks == { k \in 1 .. Len(cmds) : cmds[k].op \in SwapImageOps } IN
    IF ks = { }
    THEN layout
    ELSE cmds[CHOOSE k \in ks : \A m \in ks : m <= k].newLayout

\* vkResetCommandBuffer, vkBeginCommandBuffer, tracer.render(..., sampleFrame).
Render ==
    /\ pc = "record"
    /\ TracerRender(currentFrame, imageIndex, sampleFrame)
    /\ frame' = [ frame EXCEPT
                    !.frameIndex = sampleFrame,
                    !.resetAtStart = mResetAccum,
                    !.invalsBefore = hist.invals,
                    !.otherBefore = hist.otherInval,
                    !.prevIndex = hist.prevIndex,
                    !.prevCleared = hist.prevCleared,
                    !.clearedBefore = hist.clearedSinceCreate,
                    !.recreatedBefore = hist.recreatedSinceRender,
                    !.accumUsedBefore = hist.accumUsed,
                    !.imageRecordedBefore = imageIndex \in hist.recordedImages,
                    !.imageLayoutBefore = hist.imageLayout[imageIndex],
                    !.paramsInFlight =
                        \E e \in SeqToSet(queue) : e.image = imageIndex,
                    !.cmdInFlight =
                        \E e \in SeqToSet(queue) : e.slot = currentFrame ]
    /\ hist' = [ prevIndex            |-> sampleFrame,
                 prevCleared          |-> HasOp(cmdBuf'[currentFrame], "clearAccum"),
                 invals               |-> 0,
                 otherInval           |-> FALSE,
                 clearedSinceCreate   |-> hist.clearedSinceCreate
                                            \/ HasOp(cmdBuf'[currentFrame], "clearAccum"),
                 recreatedSinceRender |-> { },
                 accumUsed            |-> TRUE,
                 recordedImages       |-> hist.recordedImages \cup { imageIndex },
                 imageLayout          |->
                     [ hist.imageLayout EXCEPT ![imageIndex] =
                         LayoutAfter(cmdBuf'[currentFrame], @) ] ]
    /\ pc' = "ui"
    /\ UNCHANGED << currentFrame, sampleFrame, imageIndex, imageCount, inFlight,
                    queue >>
    /\ UNCHANGED << settings, resources, sync, cameraState, context, uiFrame, input >>

\* The overlay and the settings window: at most one slider is active in a UI
\* frame; a changed slider calls its setter and zeroes sampleFrame.  Then
\* ImGui::Render, the UI render pass and vkEndCommandBuffer.
UiAndRenderPass ==
    /\ pc = "ui"
    /\ \E changed \in BOOLEAN :
         /\ mResetAccum' = IF changed THEN SetterResetAccum(mResetAccum) ELSE mResetAccum
         /\ sampleFrame' = IF changed THEN U32Zero ELSE sampleFrame
         /\ hist' = [ (IF changed THEN CountInval(hist, FALSE) ELSE hist) EXCEPT
                        !.imageLayout[imageIndex] = RenderPassCmd.newLayout ]
         /\ frame' = [ frame EXCEPT !.uiChanged = changed ]
    /\ cmdBuf' = [ cmdBuf EXCEPT ![currentFrame] =
                     Append(@, RenderPassCmd) ]
    /\ pc' = "submit"
    /\ uiFrame' = RenderUi(uiFrame)
    /\ UNCHANGED << currentFrame, imageIndex, mAccumInitialized,
                    mSwapchainImageInitialized, mParamsMapped, imageCount,
                    inFlight, queue >>
    /\ UNCHANGED << settings, resources, sync, cameraState, context, input >>

\* vkQueueSubmit of the slot's command buffer, signalling the slot's fence.
Submit ==
    /\ pc = "submit"
    /\ queue' = Append(queue, [ image |-> imageIndex, slot |-> currentFrame ])
    /\ pc' = "present"
    /\ UNCHANGED << currentFrame, sampleFrame, imageIndex, mResetAccum,
                    mAccumInitialized, mSwapchainImageInitialized, mParamsMapped,
                    imageCount, inFlight, cmdBuf, frame, hist >>
    /\ UNCHANGED << settings, resources, sync, cameraState, context, uiFrame, input >>

\* vkQueueSubmit returns an error: VK_CHECK throws.
SubmitFails ==
    /\ pc = "submit"
    /\ Throw("submit")

\* currentFrame = (currentFrame + 1) % maxFramesInFlight; ++sampleFrame;
\* Bookkeeping without "++sampleFrame".
Bookkeeping_NoIncrement(s) ==
    /\ currentFrame' = (currentFrame + 1) % maxFramesInFlight
    /\ sampleFrame' = s
    /\ imageIndex' = 0
    /\ pc' = "poll"

\* Bookkeeping without the advance of currentFrame.
Bookkeeping_SameSlot(s) ==
    /\ currentFrame' = currentFrame
    /\ sampleFrame' = U32Inc(s)
    /\ imageIndex' = 0
    /\ pc' = "poll"

\* The iteration ends; its local imageIndex starts at 0 again in the next.
Bookkeeping(s) ==
    /\ currentFrame' = (currentFrame + 1) % maxFramesInFlight
    /\ sampleFrame' = U32Inc(s)
    /\ imageIndex' = 0
    /\ pc' = "poll"

\* present returns VK_SUCCESS; FPS and bookkeeping.
PresentOk ==
    /\ pc = "present"
    /\ Bookkeeping(sampleFrame)
    /\ frame' = [ frame EXCEPT !.kind = "rendered", !.presentResult = "success" ]
    /\ UNCHANGED << mResetAccum, mAccumInitialized,
                    mSwapchainImageInitialized, mParamsMapped, imageCount,
                    inFlight, cmdBuf, queue, hist >>
    /\ UNCHANGED << settings, resources, sync, cameraState, context, uiFrame, input >>

\* An out-of-date or suboptimal present handed to VK_CHECK like any other result.
PresentOutOfDate_Propagated ==
    /\ pc = "present"
    /\ pc' = "failed"
    /\ frame' = [ frame EXCEPT !.presentResult = "outOfDate", !.failed = "present" ]
    /\ UNCHANGED << currentFrame, sampleFrame, imageIndex, mResetAccum,
                    mAccumInitialized, mSwapchainImageInitialized, mParamsMapped,
                    imageCount, inFlight, cmdBuf, queue, hist >>
    /\ UNCHANGED << settings, resources, sync, cameraState, context, uiFrame, input >>

\* present returns VK_ERROR_OUT_OF_DATE_KHR or VK_SUBOPTIMAL_KHR.
PresentOutOfDate ==
    /\ pc = "present"
    /\ pc' = "recreateAfterPresent"
    /\ frame' = [ frame EXCEPT !.presentResult = "outOfDate" ]
    /\ UNCHANGED << currentFrame, sampleFrame, imageIndex, mResetAccum,
                    mAccumInitialized, mSwapchainImageInitialized, mParamsMapped,
                    imageCount, inFlight, cmdBuf, queue, hist >>
    /\ UNCHANGED << settings, resources, sync, cameraState, context, uiFrame, input >>

RecreateAfterPresent ==
    /\ pc = "recreateAfterPresent"
    /\ Recreate("present")
    /\ Bookkeeping(U32Zero)
    /\ \E result \in VkResults :
         frame' = [ frame EXCEPT !.kind = "rendered", !.recreated = TRUE,
                                 !.failed = UncheckedWaitIdle(result) ]
    /\ UNCHANGED << inFlight, cmdBuf, queue >>
    /\ UNCHANGED << settings, resources, sync, cameraState, context, uiFrame, input >>

\* Any other present result makes VK_CHECK throw.
PresentFails ==
    /\ pc = "present"
    /\ pc' = "failed"
    /\ frame' = [ frame EXCEPT !.presentResult = "error", !.failed = "present" ]
    /\ UNCHANGED << currentFrame, sampleFrame, imageIndex, mResetAccum,
                    mAccumInitialized, mSwapchainImageInitialized, mParamsMapped,
                    imageCount, inFlight, cmdBuf, queue, hist >>
    /\ UNCHANGED << settings, resources, sync, cameraState, context, uiFrame, input >>

\* window.shouldClose(): leave the loop; vulkanContext.waitIdle() first.
LoopExit ==
    /\ pc = "poll"
    /\ queue = << >>
    /\ pc' = "done"
    /\ UNCHANGED << currentFrame, sampleFrame, imageIndex, mResetAccum,
                    mAccumInitialized, mSwapchainImageInitialized, mParamsMapped,
                    imageCount, inFlight, cmdBuf, queue, frame, hist >>
    /\ UNCHANGED << settings, resources, sync, cameraState, context, uiFrame, input >>

\* A long run of iterations in which nothing happens (no input, no resize,
\* every acquire and present succeeds with image j, the GPU finishes each frame
\* before the next begins), taken in one step: it ends when sampleFrame has
\* counted up to UINT32_MAX.  None of its frames clears, so it starts with
\* mResetAccum false and sampleFrame above 0.
IdleFrames ==
    /\ pc = "poll"
    /\ ~mResetAccum
    /\ sampleFrame.hi = 0 /\ sampleFrame.lo >= 1
    /\ \E j \in Images(imageCount) :
         LET last == U32Dec(UINT32_MAX)
             cmds == Append(RenderCommands(FALSE, mAccumInitialized, TRUE),
                            RenderPassCmd)
         IN
         /\ imageIndex' = 0
         /\ mSwapchainImageInitialized' =
                [ mSwapchainImageInitialized EXCEPT ![j] = TRUE ]
         /\ mParamsMapped' = [ mParamsMapped EXCEPT ![j] = last ]
         /\ cmdBuf' = [ f \in FrameSlots |-> cmds ]
         /\ frame' = [ NewFrame("rendered", FALSE) EXCEPT
                         !.frameIndex = last,
                         !.prevIndex = U32Dec(last),
                         !.clearedBefore = hist.clearedSinceCreate,
                         !.accumUsedBefore = TRUE,
                         !.imageRecordedBefore = TRUE,
                         !.imageLayoutBefore = RenderPassCmd.newLayout,
                         !.presentResult = "success" ]
         /\ hist' = [ hist EXCEPT !.invals = 0,
                                  !.otherInval = FALSE,
                                  !.prevIndex = last,
                                  !.prevCleared = FALSE,
                                  !.recreatedSinceRender = { },
                                  !.accumUsed = TRUE,
                                  !.recordedImages = @ \cup { j },
                                  !.imageLayout[j] = RenderPassCmd.newLayout ]
    \* UINT32_MAX - sampleFrame iterations: odd exactly when sampleFrame is even.
    /\ currentFrame' = (currentFrame + 1 + sampleFrame.lo) % maxFramesInFlight
    /\ sampleFrame' = UINT32_MAX
    /\ inFlight' = [ f \in FrameSlots |-> TRUE ]
    /\ queue' = << >>
    /\ uiFrame' = RenderUi(NewFrameUi(uiFrame))
    /\ UNCHANGED << pc, mResetAccum, mAccumInitialized, imageCount >>
    /\ UNCHANGED << settings, resources, sync, cameraState, context, input >>

\* ------------------------------------------------------------------- GPU

\* The queue completes its oldest submission and signals that slot's fence.
GpuComplete ==
    /\ queue # << >>
    /\ inFlight' = [ inFlight EXCEPT ![Head(queue).slot] = TRUE ]
    /\ queue' = Tail(queue)
    /\ UNCHANGED << pc, currentFrame, sampleFrame, imageIndex, mResetAccum,
                    mAccumInitialized, mSwapchainImageInitialized, mParamsMapped,
                    imageCount, cmdBuf, frame, hist >>
    /\ UNCHANGED << settings, resources, sync, cameraState, context, uiFrame, input >>

Next ==
    \/ HandleResize
    \/ BeginFrame
    \/ WaitFence
    \/ AcquireImage
    \/ AcquireOutOfDate
    \/ RecreateAfterAcquire
    \/ AcquireFails
    \/ Render
    \/ UiAndRenderPass
    \/ Submit
    \/ PresentOk
    \/ PresentOutOfDate
    \/ RecreateAfterPresent
    \/ PresentFails
    \/ LoopExit
    \/ FenceFails
    \/ RecordFails
    \/ SubmitFails
    \/ RecreateFails
    \/ IdleFrames
    \/ GpuComplete

Spec == Init /\ [][Next]_vars

\* The loop with a GPU that eventually completes every submitted command
\* buffer, and a host whose vkWaitForFences returns once the fence is signaled.
FairSpec == Spec /\ WF_vars(GpuComplete) /\ WF_vars(WaitFence)

\* ------------------------------------------------- RayTracer's interface

\* Arguments the setters are called with: the edges of what the code accepts
\* and of the slider ranges, values beyond them, and NaN for the floats.
SamplesArgs == { U32Zero, U32(0, 32), U32(0, 33), UINT32_MAX }

DepthArgs == { U32Zero, U32(0, 64), U32(0, 65), UINT32_MAX }

ApertureArgs == { NaN, F(-1), F(0), F(200) }

FovArgs == { NaN, F(4999), F(90000), F(120001) }

FocusArgs == { NaN, F(-1000), F(0), F(100) }

SetterOps == { "setCamera", "setSamplesPerPixel", "setAperture",
               "setFocusDistance", "setFov", "setMaxDepth" }

\* What a call on the RayTracer between frames leaves alone.
loopState == << pc, currentFrame, sampleFrame, imageIndex, imageCount, inFlight,
                queue, frame, hist >>

renderState == << mAccumInitialized, mSwapchainImageInitialized, mParamsMapped,
                  cmdBuf >>

\* setCamera(position, direction, focusDistance); focusDistance defaults to -1.
SetCameraTo(position, direction, focusDistance) ==
    /\ mCamPos' = position
    /\ mCamDir' = normalize(direction)
    /\ mFocusDistance' = FocusStored(mFocusDistance, focusDistance)
    /\ mResetAccum' = SetterResetAccum(mResetAccum)
    /\ lastCall' = Call("setCamera", focusDistance)
    /\ UNCHANGED << mSamplesPerPixel, mMaxDepth, mAperture, mVerticalFov >>
    /\ UNCHANGED << loopState, renderState, resources, sync, paramsCamera, context, uiFrame, input >>

\* setCamera where the vectors are not followed.
SetCamera(focusDistance) ==
    /\ mFocusDistance' = FocusStored(mFocusDistance, focusDistance)
    /\ mResetAccum' = SetterResetAccum(mResetAccum)
    /\ lastCall' = Call("setCamera", focusDistance)
    /\ UNCHANGED << mSamplesPerPixel, mMaxDepth, mAperture, mVerticalFov >>
    /\ UNCHANGED << loopState, renderState, resources, sync, cameraState, context, uiFrame, input >>

SetSamplesPerPixel(samplesPerPixel) ==
    /\ mSamplesPerPixel' = SamplesPerPixelStored(samplesPerPixel)
    /\ mResetAccum' = SetterResetAccum(mResetAccum)
    /\ lastCall' = Call("setSamplesPerPixel", samplesPerPixel)
    /\ UNCHANGED << mMaxDepth, mAperture, mVerticalFov, mFocusDistance >>
    /\ UNCHANGED << loopState, renderState, resources, sync, cameraState, context, uiFrame, input >>

SetAperture(aperture) ==
    /\ mAperture' = ApertureStored(aperture)
    /\ mResetAccum' = SetterResetAccum(mResetAccum)
    /\ lastCall' = Call("setAperture", aperture)
    /\ UNCHANGED << mSamplesPerPixel, mMaxDepth, mVerticalFov, mFocusDistance >>
    /\ UNCHANGED << loopState, renderState, resources, sync, cameraState, context, uiFrame, input >>

\* setFocusDistance: a rejected argument changes nothing, the flag included.
SetFocusDistance(focusDistance) ==
    /\ mFocusDistance' = FocusStored(mFocusDistance, focusDistance)
    /\ mResetAccum' = IF FocusAccepted(focusDistance)
                      THEN SetterResetAccum(mResetAccum)
                      ELSE mResetAccum
    /\ lastCall' = Call("setFocusDistance", focusDistance)
    /\ UNCHANGED << mSamplesPerPixel, mMaxDepth, mAperture, mVerticalFov >>
    /\ UNCHANGED << loopState, renderState, resources, sync, cameraState, context, uiFrame, input >>

SetFov(verticalFov) ==
    /\ mVerticalFov' = FovStored(verticalFov)
    /\ mResetAccum' = SetterResetAccum(mResetAccum)
    /\ lastCall' = Call("setFov", verticalFov)
    /\ UNCHANGED << mSamplesPerPixel, mMaxDepth, mAperture, mFocusDistance >>
    /\ UNCHANGED << loopState, renderState, resources, sync, cameraState, context, uiFrame, input >>

SetMaxDepth(depth) ==
    /\ mMaxDepth' = MaxDepthStored(depth)
    /\ mResetAccum' = SetterResetAccum(mResetAccum)
    /\ lastCall' = Call("setMaxDepth", depth)
    /\ UNCHANGED << mSamplesPerPixel, mAperture, mVerticalFov, mFocusDistance >>
    /\ UNCHANGED << loopState, renderState, resources, sync, cameraState, context, uiFrame, input >>

ApiSetCamera == \E focusDistance \in FocusArgs : SetCamera(focusDistance)

ApiSetSamplesPerPixel ==
    \E samplesPerPixel \in SamplesArgs : SetSamplesPerPixel(samplesPerPixel)

ApiSetAperture == \E aperture \in ApertureArgs : SetAperture(aperture)

ApiSetFocusDistance ==
    \E focusDistance \in FocusArgs : SetFocusDistance(focusDistance)

ApiSetFov == \E verticalFov \in FovArgs : SetFov(verticalFov)

ApiSetMaxDepth == \E depth \in DepthArgs : SetMaxDepth(depth)

\* render of a frame between setter calls (frame slot 0, image 0, a frame
\* index that is 0 after a reset and 1 otherwise).
ApiRender ==
    /\ TracerRender(0, 0, IF mResetAccum THEN U32Zero ELSE U32(0, 1))
    /\ lastCall' = Call("render", F(0))
    /\ UNCHANGED << mSamplesPerPixel, mMaxDepth, mAperture, mVerticalFov,
                    mFocusDistance >>
    /\ UNCHANGED << loopState, resources, sync, cameraState, context, uiFrame, input >>

ApiNext ==
    \/ ApiSetCamera
    \/ ApiSetSamplesPerPixel
    \/ ApiSetAperture
    \/ ApiSetFocusDistance
    \/ ApiSetFov
    \/ ApiSetMaxDepth
    \/ ApiRender

\* create, then any sequence of setter calls and renders.
ApiSpec == Init /\ [][ApiNext]_vars

\* ------------------------------------------- RayTracer's objects over time

\* Extents the surface reports: the window's, the smallest, sizes around a
\* multiple of the 8x8 tile, and the largest a uint32_t pair can hold.
Extents ==
    { Extent(U32(0, windowWidth), U32(0, windowHeight)),
      Extent(U32(0, 1), U32(0, 8)),
      Extent(U32(Half - 1, Half - 8), U32(0, 9)),
      Extent(U32(Half - 1, Half - 7), UINT32_MAX) }

\* create for a swapchain of any image count and extent.
LifeInit ==
    /\ InitLoop
    /\ \E e \in Extents : ResourcesCreated(imageCount, e)
    /\ ContextNotFollowed
    /\ lastCall = Call("create", F(0))

\* swapchain.recreate and tracer.resize, for a new image count and extent.
LifeResize ==
    /\ nextHandle <= MaxHandle
    /\ \E n \in ImageCounts, e \in Extents :
         /\ imageCount' = n
         /\ TracerResize(n)
         /\ ResourcesResized(n, e)
    /\ lastCall' = Call("resize", F(0))
    /\ UNCHANGED << pc, currentFrame, sampleFrame, imageIndex, inFlight, cmdBuf,
                    queue, frame, hist >>
    /\ UNCHANGED << mSamplesPerPixel, mMaxDepth, mAperture, mVerticalFov,
                    mFocusDistance >>
    /\ UNCHANGED << sync, cameraState, context, uiFrame, input >>

\* render of a frame on any image slot.
LifeRender ==
    /\ \E i \in Images(imageCount) :
         /\ TracerRender(0, i, IF mResetAccum THEN U32Zero ELSE U32(0, 1))
         /\ ResourcesRendered(i)
    /\ lastCall' = Call("render", F(0))
    /\ UNCHANGED << mSamplesPerPixel, mMaxDepth, mAperture, mVerticalFov,
                    mFocusDistance >>
    /\ UNCHANGED << loopState, sync, cameraState, context, uiFrame, input >>

\* The setters, with the values App::run passes after create and the initial
\* values of its sliders.
LifeSetter ==
    \/ SetCamera(F(-1000))
    \/ SetSamplesPerPixel(U32(0, 4))
    \/ SetAperture(F(50))
    \/ SetFocusDistance(F(13379))
    \/ SetFov(F(20000))
    \/ SetMaxDepth(U32(0, 12))

\* buildScene called once more.
LifeBuildScene ==
    /\ mSpheres' = buildScene(mSpheres)
    /\ lastCall' = Call("buildScene", F(0))
    /\ freed' = << >>
    /\ UNCHANGED << extent, mSphereBuffer, mAccumImage, mAccumView,
                    mDescriptorPool, mDescriptorSets, mParamsBuffers,
                    paramsSphereCount, dispatchGroups, device, nextHandle,
                    resizes >>
    /\ UNCHANGED << mSamplesPerPixel, mMaxDepth, mAperture, mVerticalFov,
                    mFocusDistance, mResetAccum >>
    /\ UNCHANGED << loopState, renderState, sync, cameraState, context, uiFrame, input >>

LifeNext ==
    \/ LifeResize
    \/ LifeRender
    \/ LifeSetter
    \/ LifeBuildScene

\* create for any swapchain, then any sequence of resizes, renders and setter
\* calls.
LifeSpec == LifeInit /\ [][LifeNext]_vars

\* ------------------------------------------------- the semaphores (SyncSpec)
\* The loop's synchronization calls for iterations that acquire, submit and
\* present, with the GPU and the presentation engine proceeding at any pace.
\* What is recorded between acquire and submit is left to Spec.

SyncImageCounts == 1 .. MaxSyncImages

recording == << mResetAccum, renderState, frame, hist, imageCount, cameraState,
               context, uiFrame, input >>

SyncInit ==
    /\ InitState(SyncImageCounts)
    /\ ResourcesNotCreated(Extent(U32(0, windowWidth), U32(0, windowHeight)))
    /\ ContextNotFollowed
    /\ lastCall = Call("create", F(0))

\* The images the presentation engine still holds.
Presenting == { presents[k].image : k \in 1 .. Len(presents) }

\* vkWaitForFences and vkResetFences on the slot's fence.
SyncWaitFence ==
    /\ pc = "poll"
    /\ Stepped(sampleFrame)
    /\ FenceWaitReturns(currentFrame)
    /\ inFlight' = [ inFlight EXCEPT ![currentFrame] = FALSE ]
    /\ pc' = "acquire"
    /\ UNCHANGED << currentFrame, sampleFrame, imageIndex, queue >>
    /\ UNCHANGED << recording, settings, resources, sync >>

\* vkAcquireNextImageKHR with an unlimited timeout: returns an image the
\* presentation engine does not hold and queues a signal of the semaphore
\* passed, which is the slot's imageAvailable.
SyncAcquire ==
    /\ pc = "acquire"
    /\ \E i \in Images(imageCount) \ Presenting : imageIndex' = i
    /\ semaphores' = [ semaphores EXCEPT
                         ![SyncObject("semaphore", mFrames[currentFrame].imageAvailable)] = TRUE ]
    /\ pc' = "submit"
    /\ UNCHANGED << currentFrame, sampleFrame, inFlight, queue >>
    /\ UNCHANGED << mFrames, syncObjects, presents >>
    /\ UNCHANGED << recording, settings, resources >>

\* A batch as vkQueueSubmit receives it: the semaphore waited on, the one
\* signaled and the fence.
Batch(slot, image) ==
    [ image |-> image, slot |-> slot,
      fence |-> mFrames[slot].inFlight,
      wait |-> mFrames[slot].imageAvailable,
      signal |-> mFrames[slot].renderFinished ]

\* vkQueueSubmit.
SyncSubmit ==
    /\ pc = "submit"
    /\ queue' = Append(queue, Batch(currentFrame, imageIndex))
    /\ pc' = "present"
    /\ UNCHANGED << currentFrame, sampleFrame, imageIndex, inFlight >>
    /\ UNCHANGED << recording, settings, resources, sync >>

\* A presentation request as vkQueuePresentKHR receives it.
PresentRequest(slot, image) ==
    [ image |-> image, slot |-> slot, wait |-> mFrames[slot].renderFinished ]

\* vkQueuePresentKHR returns VK_SUCCESS, then the end of the iteration.
SyncPresent ==
    /\ pc = "present"
    /\ presents' = Append(presents, PresentRequest(currentFrame, imageIndex))
    /\ Bookkeeping(sampleFrame)
    /\ UNCHANGED << inFlight, queue >>
    /\ UNCHANGED << mFrames, syncObjects, semaphores >>
    /\ UNCHANGED << recording, settings, resources >>

\* vkQueueSubmit and vkQueuePresentKHR are given a semaphore handle that is
\* VK_NULL_HANDLE: the behaviour is undefined.  The driver may take the call
\* as one without that semaphore (SyncSubmit, SyncPresent) or the process ends
\* here.
SyncUndefined ==
    /\ pc \in { "submit", "present" }
    /\ mFrames[currentFrame].renderFinished = VK_NULL_HANDLE
    /\ pc' = "crashed"
    /\ UNCHANGED << currentFrame, sampleFrame, imageIndex, inFlight, queue >>
    /\ UNCHANGED << recording, settings, resources, sync >>

\* The GPU completes the oldest batch: its wait on the first semaphore is
\* over, the second semaphore and the fence are signaled.
SyncGpuComplete ==
    /\ queue # << >>
    /\ LET b == Head(queue)
           waited == SyncObject("semaphore", b.wait)
           signaled == SyncObject("semaphore", b.signal)
       IN  /\ semaphores[waited]
           /\ semaphores' = [ o \in DOMAIN semaphores |->
                                IF o = signaled THEN TRUE
                                ELSE IF o = waited THEN FALSE
                                ELSE semaphores[o] ]
           /\ inFlight' = [ inFlight EXCEPT ![b.slot] = TRUE ]
    /\ queue' = Tail(queue)
    /\ UNCHANGED << pc, currentFrame, sampleFrame, imageIndex >>
    /\ UNCHANGED << mFrames, syncObjects, presents >>
    /\ UNCHANGED << recording, settings, resources >>

\* The presentation engine processes the oldest request: it waits for the
\* request's semaphore, if there is one, and the image becomes available to
\* acquire again.
SyncPresentProcessed ==
    /\ presents # << >>
    /\ LET p == Head(presents)
           waited == SyncObject("semaphore", p.wait)
       IN  IF waited \in DOMAIN semaphores
           THEN /\ semaphores[waited]
                /\ semaphores' = [ semaphores EXCEPT ![waited] = FALSE ]
           ELSE UNCHANGED semaphores
    /\ presents' = Tail(presents)
    /\ UNCHANGED << pc, currentFrame, sampleFrame, imageIndex, inFlight, queue >>
    /\ UNCHANGED << mFrames, syncObjects >>
    /\ UNCHANGED << recording, settings, resources >>

\* The window is closed: waitIdle after the loop.
SyncExit ==
    /\ pc = "poll"
    /\ queue = << >>
    /\ pc' = "done"
    /\ UNCHANGED << currentFrame, sampleFrame, imageIndex, inFlight, queue >>
    /\ UNCHANGED << recording, settings, resources, sync >>

\* VulkanContext::destroy.
SyncDestroy ==
    /\ pc = "done"
    /\ syncObjects' = destroySyncObjects(mFrames, syncObjects)
    /\ mFrames' = << >>
    /\ pc' = "destroyed"
    /\ UNCHANGED << currentFrame, sampleFrame, imageIndex, inFlight, queue >>
    /\ UNCHANGED << semaphores, presents >>
    /\ UNCHANGED << recording, settings, resources >>

SyncNext ==
    \/ SyncWaitFence
    \/ SyncAcquire
    \/ SyncSubmit
    \/ SyncPresent
    \/ SyncUndefined
    \/ SyncGpuComplete
    \/ SyncPresentProcessed
    \/ SyncExit
    \/ SyncDestroy

SyncSpec == SyncInit /\ [][SyncNext]_vars

\* ---------------------------------------------------- the camera (CamSpec)
\* setCamera with positions and directions of any kind, and render, which
\* writes the camera computed by makeCameraParams into a parameter slot.

\* Positions passed to setCamera: the initial one and one more.
PositionArgs == { CamPosInitial, IntVec3(-5, 7, 2) }

\* Directions passed to setCamera: toward the look-at point of create, along
\* an axis, straight up and down, and one degree off straight up (the
\* steepest pitch the mouse reaches in App::run).
DirectionArgs ==
    { Vec3Sub(CreateLookAt, CamPosInitial), IntVec3(1, 0, 0), IntVec3(0, 1, 0),
      IntVec3(0, -1, 0), IntVec3(0, 5, 0), IntVec3(1, 57, 0) }

CamSetCamera ==
    \E position \in PositionArgs, direction \in DirectionArgs :
        SetCameraTo(position, direction, F(-1000))

\* render on image slot 0: updateParams copies the camera into the slot.
CamRender ==
    /\ TracerRender(0, 0, IF mResetAccum THEN U32Zero ELSE U32(0, 1))
    /\ paramsCamera' = makeCameraParams(mCamPos, mCamDir)
    /\ lastCall' = Call("render", F(0))
    /\ UNCHANGED << mSamplesPerPixel, mMaxDepth, mAperture, mVerticalFov,
                    mFocusDistance >>
    /\ UNCHANGED << loopState, resources, sync, mCamPos, mCamDir, context, uiFrame, input >>

CamNext ==
    \/ CamSetCamera
    \/ CamRender

CamSpec == Init /\ [][CamNext]_vars

\* ------------------------------------- recreation and teardown (ExitSpec)
\* App::run for what it creates and destroys: frames are submitted and
\* complete at any pace, the swapchain is recreated and the tracer resized on
\* any of the three paths, and the run ends by the window closing or by an
\* exception, after which the locals of the try block are destructed.

\* What a submitted frame refers to while it executes: the swapchain, the
\* render pass, the view and the framebuffer of its image; the accumulation
\* image and view, the descriptor pool of its set, the sphere buffer and the
\* parameter buffer of its slot.
Work(image) ==
    [ context |-> { ContextObject("swapchain", << context.generation, 0 >>),
                    ContextObject("renderPass", << context.generation, 0 >>),
                    ContextObject("imageView", << context.generation, image >>),
                    ContextObject("framebuffer", << context.generation, image >>) },
      tracer  |-> { Freed("images", mAccumImage), Freed("views", mAccumView),
                    Freed("pools", mDescriptorPool),
                    Freed("buffers", mSphereBuffer),
                    Freed("buffers", mParamsBuffers[image]) } ]

\* The tracer's objects that exist on the device.
TracerObjects(dev) ==
    UNION { { Freed(kind, o.h) : o \in dev[kind] } :
            kind \in { "images", "views", "buffers", "pools" } }

\* vulkanContext.waitIdle with the result discarded.
waitIdle_Unchecked(result) == TRUE

\* VulkanContext::waitIdle: VK_CHECK(vkDeviceWaitIdle(mDevice)) returns when
\* the result is VK_SUCCESS and throws otherwise.
waitIdle(result) == result = VK_SUCCESS

\* vkDeviceWaitIdle returns VK_SUCCESS once every submission has completed;
\* it returns an error at any time.
WaitReturns(result) ==
    /\ result \in VkResults
    /\ result = VK_SUCCESS => queue = << >>

\* The variables of the loop model that ExitSpec does not follow.
unfollowed == << currentFrame, sampleFrame, imageIndex, inFlight, cmdBuf, frame,
                 hist, semaphores, presents, uiFrame, input >>

ExitInit ==
    /\ InitLoop
    /\ ResourcesCreated(imageCount, Extent(U32(0, windowWidth), U32(0, windowHeight)))
    /\ ContextCreated
    /\ lastCall = Call("create", F(0))

\* One iteration that submits a frame on an image; at most maxFramesInFlight
\* frames are pending, which the fence wait of the slot sees to.
ExitSubmit ==
    /\ pc = "poll"
    /\ Len(queue) < maxFramesInFlight
    /\ \E image \in Images(imageCount) : queue' = Append(queue, Work(image))
    /\ context' = [ context EXCEPT !.used = TRUE, !.idle = FALSE ]
    /\ UNCHANGED << pc, imageCount, mResetAccum, renderState, mFrames, syncObjects,
                    unfollowed >>
    /\ UNCHANGED << settings, resources, cameraState >>

\* The GPU completes the oldest submission.
ExitGpuComplete ==
    /\ queue # << >>
    /\ queue' = Tail(queue)
    /\ UNCHANGED << pc, imageCount, mResetAccum, renderState, mFrames, syncObjects,
                    context, unfollowed >>
    /\ UNCHANGED << settings, resources, cameraState >>

\* A VK_CHECK in the loop throws: the catch in App::run is entered and the
\* locals of the try block are destructed.
ExitThrow ==
    /\ pc = "poll"
    /\ pc' = "unwind"
    /\ UNCHANGED << queue, imageCount, mResetAccum, renderState, mFrames,
                    syncObjects, context, unfollowed >>
    /\ UNCHANGED << settings, resources, cameraState >>

\* Swapchain::recreate on any of the three paths: waitIdle, destroy, create.
ExitSwapchainRecreate ==
    /\ pc = "poll"
    /\ nextHandle <= MaxHandle
    /\ \E result \in VkResults, n \in ImageCounts :
         /\ WaitReturns(result)
         /\ IF waitIdle(result)
            THEN /\ pc' = "resize"
                 /\ imageCount' = n
                 /\ context' = [ context EXCEPT
                      !.objects    = (@ \ context.bundle)
                                       \cup swapchainCreate(context.generation + 1, n),
                      !.bundle     = swapchainCreate(context.generation + 1, n),
                      !.generation = @ + 1,
                      !.twice      = @ \cup (context.bundle \ context.objects),
                      !.retired    = @ \/ context.used,
                      !.idle       = TRUE,
                      !.lastWait   = result ]
            ELSE /\ pc' = "unwind"
                 /\ context' = [ context EXCEPT !.lastWait = result ]
                 /\ UNCHANGED imageCount
    /\ UNCHANGED << queue, mResetAccum, renderState, mFrames, syncObjects,
                    unfollowed >>
    /\ UNCHANGED << settings, resources, cameraState >>

\* RayTracer::resize after the recreation: vkDeviceWaitIdle with the result
\* discarded, then the accumulation image and the descriptors anew.
ExitTracerResize ==
    /\ pc = "resize"
    /\ pc' = "poll"
    /\ \E result \in VkResults :
         /\ WaitReturns(result)
         /\ context' = [ context EXCEPT !.lastWait = result, !.used = FALSE,
                                        !.idle = @ \/ result = VK_SUCCESS ]
    /\ TracerResize(imageCount)
    /\ ResourcesResized(imageCount, Extent(U32(0, windowWidth), U32(0, windowHeight)))
    /\ lastCall' = Call("resize", F(0))
    /\ UNCHANGED << mSamplesPerPixel, mMaxDepth, mAperture, mVerticalFov,
                    mFocusDistance >>
    /\ UNCHANGED << queue, imageCount, cmdBuf, mFrames, syncObjects, unfollowed >>
    /\ UNCHANGED cameraState

\* The window closes: the loop ends and vulkanContext.waitIdle() is called.
ExitWaitIdle ==
    /\ pc = "poll"
    /\ \E result \in VkResults :
         /\ WaitReturns(result)
         /\ pc' = IF waitIdle(result) THEN "imguiShutdown" ELSE "unwind"
         /\ context' = [ context EXCEPT !.lastWait = result,
                                        !.idle = @ \/ result = VK_SUCCESS ]
    /\ UNCHANGED << queue, imageCount, mResetAccum, renderState, mFrames,
                    syncObjects, unfollowed >>
    /\ UNCHANGED << settings, resources, cameraState >>

\* imguiShutdown: vkDestroyDescriptorPool of the UI's pool.
ExitImguiShutdown ==
    /\ pc = "imguiShutdown"
    /\ pc' = "tracerDestroy"
    /\ context' = [ context EXCEPT
                      !.objects = @ \ { createImguiPool },
                      !.twice   = @ \cup ({ createImguiPool } \ context.objects) ]
    /\ UNCHANGED << queue, imageCount, mResetAccum, renderState, mFrames,
                    syncObjects, unfollowed >>
    /\ UNCHANGED << settings, resources, cameraState >>

\* RayTracer::destroy: vkDeviceWaitIdle with the result discarded; the
\* descriptor pool, the accumulation view and image, the sphere buffer and the
\* parameter buffers mParamsBuffers names are destroyed, if set, and the
\* members are nulled and cleared.
ResourcesDestroyed ==
    LET d1   == IF mDescriptorPool # VK_NULL_HANDLE
                THEN Destroy(device, "pools", mDescriptorPool)
                ELSE device
        gone == destroyAccumulation(d1, mAccumView, mAccumImage)
        d2   == IF mSphereBuffer # VK_NULL_HANDLE
                THEN Destroy(gone.device, "buffers", mSphereBuffer)
                ELSE gone.device
        d3   == [ d2 EXCEPT !.buffers =
                    { b \in @ : \A i \in DOMAIN mParamsBuffers :
                                  b.h # mParamsBuffers[i] } ]
    IN
    /\ device' = d3
    /\ mDescriptorPool' = VK_NULL_HANDLE
    /\ mDescriptorSets' = << >>
    /\ mAccumImage' = VK_NULL_HANDLE
    /\ mAccumView' = VK_NULL_HANDLE
    /\ mSphereBuffer' = VK_NULL_HANDLE
    /\ mParamsBuffers' = << >>
    /\ mParamsMapped' = << >>
    /\ freed' = gone.freed
    /\ UNCHANGED << extent, mSpheres, paramsSphereCount, dispatchGroups, nextHandle,
                    resizes >>

ExitTracerDestroy ==
    /\ pc = "tracerDestroy"
    /\ pc' = "swapchainDestroy"
    /\ \E result \in VkResults :
         /\ WaitReturns(result)
         /\ context' = [ context EXCEPT !.lastWait = result,
                                        !.retired = @ \/ context.used,
                                        !.idle = @ \/ result = VK_SUCCESS ]
    /\ ResourcesDestroyed
    /\ lastCall' = Call("destroy", F(0))
    /\ UNCHANGED << mSamplesPerPixel, mMaxDepth, mAperture, mVerticalFov,
                    mFocusDistance >>
    /\ UNCHANGED << queue, imageCount, mResetAccum, mAccumInitialized,
                    mSwapchainImageInitialized, cmdBuf, mFrames, syncObjects,
                    unfollowed >>
    /\ UNCHANGED cameraState

\* Swapchain::destroy: the framebuffers, the render pass, the views and the
\* swapchain of the bundle, which is cleared.
ExitSwapchainDestroy ==
    /\ pc = "swapchainDestroy"
    /\ pc' = "contextDestroy"
    /\ context' = [ context EXCEPT
                      !.objects = @ \ context.bundle,
                      !.bundle  = { },
                      !.twice   = @ \cup (context.bundle \ context.objects) ]
    /\ UNCHANGED << queue, imageCount, mResetAccum, renderState, mFrames,
                    syncObjects, unfollowed >>
    /\ UNCHANGED << settings, resources, cameraState >>

\* VulkanContext::destroy: vkDeviceWaitIdle if mDevice, result discarded; per
\* entry of mFrames the fence, the imageAvailable semaphore and the command
\* pool are destroyed and mFrames is cleared; the device is destroyed if set
\* and mDevice nulled.
ContextDestroyed ==
    LET pools  == { cmdPool(i) : i \in DOMAIN mFrames }
        syncs  == UNION { { SyncObject("fence", mFrames[i].inFlight),
                            SyncObject("semaphore", mFrames[i].imageAvailable) } :
                          i \in DOMAIN mFrames }
        left   == context.objects \ pools
        syncsLeft == destroySyncObjects(mFrames, syncObjects)
    IN
    /\ \E result \in VkResults :
         /\ context.mDevice => WaitReturns(result)
         /\ context' = [ context EXCEPT
              !.mDevice  = FALSE,
              !.objects  = left,
              !.twice    = @ \cup (pools \ context.objects)
                             \cup { ContextObject(o.kind, << 0, o.h >>) :
                                    o \in syncs \ syncObjects },
              !.orphans  = IF context.mDevice
                           THEN [ context |-> left, sync |-> syncsLeft,
                                  tracer |-> TracerObjects(device) ]
                           ELSE @,
              !.idle     = @ \/ (context.mDevice /\ result = VK_SUCCESS),
              !.lastWait = IF context.mDevice THEN result ELSE @ ]
    /\ syncObjects' = syncsLeft
    /\ mFrames' = << >>

\* vulkanContext.destroy() at the end of the shutdown sequence; window.destroy
\* follows and the try block ends.
ExitContextDestroy ==
    /\ pc = "contextDestroy"
    /\ pc' = "unwind"
    /\ ContextDestroyed
    /\ UNCHANGED << queue, imageCount, mResetAccum, renderState, unfollowed >>
    /\ UNCHANGED << settings, resources, cameraState >>

\* The locals of the try block are destructed, by the end of the block or by
\* the exception: ~RayTracer and ~Swapchain are defaulted and destroy
\* nothing; ~VulkanContext calls destroy().
ExitUnwind ==
    /\ pc = "unwind"
    /\ pc' = "exited"
    /\ ContextDestroyed
    /\ UNCHANGED << queue, imageCount, mResetAccum, renderState, unfollowed >>
    /\ UNCHANGED << settings, resources, cameraState >>

ExitNext ==
    \/ ExitSubmit
    \/ ExitGpuComplete
    \/ ExitThrow
    \/ ExitSwapchainRecreate
    \/ ExitTracerResize
    \/ ExitWaitIdle
    \/ ExitImguiShutdown
    \/ ExitTracerDestroy
    \/ ExitSwapchainDestroy
    \/ ExitContextDestroy
    \/ ExitUnwind

ExitSpec == ExitInit /\ [][ExitNext]_vars


\* -------------------------------------------------- camera input (InputSpec)
\* The loop for what the ESC key, the cursor and the movement keys do to the
\* camera, with the UI wanting mouse and keyboard or not in any iteration.

\* Where glfwGetCursorPos finds the cursor.
CursorPositions == { << 640, 360 >>, << 1540, 1260 >> }

\* The movement keys that are down together.
KeySets == { { }, { "W", "A", "LEFT_SHIFT" } }

\* frameTimer.elapsedSeconds() of an iteration: a quarter of a second.
FrameSeconds == F32Fin(0, 8388608, -25)

\* What io.WantCaptureMouse can be where the ESC toggle reads it: it is read
\* only when the toggle resumes the camera.
WantCaptureMouseRead(in, escPressed) ==
    IF escPressed /\ ~in.escPrev /\ in.cameraPaused THEN BOOLEAN ELSE { FALSE }

\* "if (camChanged) { tracer.setCamera(camPos, camDir); sampleFrame = 0; }"
cameraUpdate(in, camChanged) ==
    IF camChanged
    THEN /\ mCamPos' = in.camPos
         /\ mCamDir' = normalize(in.camDir)
         /\ mFocusDistance' = FocusStored(mFocusDistance, F(-1000))
         /\ mResetAccum' = SetterResetAccum(mResetAccum)
         /\ lastCall' = Call("setCamera", F(-1000))
         /\ sampleFrame' = U32Zero
    ELSE UNCHANGED << mCamPos, mCamDir, mFocusDistance, mResetAccum, lastCall,
                      sampleFrame >>

\* The camera locals after the iteration, with what the model keeps about it.
inputAfter(in, camChanged, ignored) ==
    /\ input' = [ in EXCEPT !.changes = IF camChanged THEN @ + 1 ELSE @,
                            !.ignored = ignored ]
    /\ cameraUpdate(in, camChanged)

\* An iteration without pending resize, up to the camera update: ESC toggle,
\* UI NewFrame, cursor capture, mouse look, keyboard move, and setCamera with
\* "sampleFrame = 0" if the camera changed.
InputIteration ==
    /\ pc = "poll"
    /\ pc' = "wait"
    /\ \E escPressed, uiWantsMouse, uiWantsKeyboard \in BOOLEAN,
          cursor \in CursorPositions, keys \in KeySets :
       \E wantCaptureMouse \in WantCaptureMouseRead(input, escPressed) :
         LET captured   == cursorCapture(togglePause(input, escPressed,
                                                     wantCaptureMouse),
                                         uiWantsMouse)
             camChanged == \/ mouseMoved(captured, cursor[1], cursor[2])
                           \/ keyboardMoved(captured, uiWantsKeyboard, keys)
         IN  /\ camChanged => input.changes < MaxMoves
             /\ inputAfter(keyboardMove(mouseLook(captured, cursor[1], cursor[2]),
                                        uiWantsKeyboard, keys, FrameSeconds),
                           camChanged,
                           /\ captured.cameraPaused
                           /\ keys # { }
                           /\ cursor # << input.lastX, input.lastY >>)
    /\ uiFrame' = NewFrameUi(uiFrame)
    /\ UNCHANGED << mSamplesPerPixel, mMaxDepth, mAperture, mVerticalFov >>
    /\ UNCHANGED << currentFrame, imageIndex, imageCount, inFlight, queue, frame,
                    hist >>
    /\ UNCHANGED << renderState, resources, sync, paramsCamera, context >>

\* An iteration with a resize pending: the ESC toggle, then the recreation,
\* "sampleFrame = 0" and continue.
InputResize ==
    /\ pc = "poll"
    /\ \E escPressed \in BOOLEAN :
       \E wantCaptureMouse \in WantCaptureMouseRead(input, escPressed) :
         input' = togglePause(input, escPressed, wantCaptureMouse)
    /\ TracerResize(imageCount)
    /\ sampleFrame' = U32Zero
    /\ UNCHANGED << pc, currentFrame, imageIndex, imageCount, inFlight, queue,
                    frame, hist, cmdBuf >>
    /\ UNCHANGED << settings, resources, sync, cameraState, context, uiFrame >>

\* The rest of the iteration: the frame is rendered, the UI frame finished and
\* sampleFrame advances; it is followed up to MaxSampleFrame.  The frame slot
\* is not followed: the commands are recorded in slot 0.
InputFrame ==
    /\ pc = "wait"
    /\ TracerRender(0, 0, sampleFrame)
    /\ uiFrame' = RenderUi(uiFrame)
    /\ sampleFrame' = IF sampleFrame.lo < MaxSampleFrame
                      THEN U32Inc(sampleFrame)
                      ELSE sampleFrame
    /\ pc' = "poll"
    /\ UNCHANGED << currentFrame, imageIndex, imageCount, inFlight, queue, frame,
                    hist >>
    /\ input' = [ input EXCEPT !.ignored = FALSE ]
    /\ UNCHANGED << settings, resources, sync, cameraState, context >>

InputNext ==
    \/ InputIteration
    \/ InputResize
    \/ InputFrame

\* The swapchain has two images.
InputInit == Init /\ imageCount = 2

InputSpec == InputInit /\ [][InputNext]_vars


TypeOK ==
    /\ pc \in { "poll", "wait", "acquire", "recreateAfterAcquire", "record", "ui",
                "submit", "present", "recreateAfterPresent", "failed", "done",
                "crashed", "destroyed", "resize", "unwind", "imguiShutdown",
                "tracerDestroy", "swapchainDestroy", "contextDestroy", "exited" }
    /\ currentFrame \in FrameSlots
    /\ sampleFrame.hi \in 0 .. (Half - 1)
    /\ sampleFrame.lo \in 0 .. (Half - 1)
    /\ imageCount \in ImageCounts

\* ---------------------------------------------------------------- claims

\* The iteration has recorded its frame: cmdBuf[currentFrame] holds what
\* tracer.render recorded and frame describes that render.
Recorded == pc \in { "ui", "submit", "present", "recreateAfterPresent" }

Cmds == cmdBuf[currentFrame]

Positions(cmds, op) == { k \in 1 .. Len(cmds) : cmds[k].op = op }

ClearRecorded == HasOp(Cmds, "clearAccum")

\* Clears recorded ahead of the frame's dispatch; no clear is recorded anywhere
\* else, so these are the clears since the previous dispatch.
ClearsBeforeDispatch ==
    Cardinality({ k \in Positions(Cmds, "clearAccum") :
                    \A d \in Positions(Cmds, "dispatch") : k < d })

\* An iteration that rendered has just ended.
FrameDone == pc = "poll" /\ frame.kind = "rendered"

\* C1 as stated: a frame records the accumulation clear if and only if
\* mResetAccum was true when render began.
C1_ClearIffResetFlag ==
    Recorded => (ClearRecorded <=> frame.resetAtStart)

\* C1 amended: a frame records the accumulation clear if and only if
\* mResetAccum was true when render began or the frame index passed is 0.
C1_ClearIffResetFlagOrFrameZero ==
    Recorded =>
        (ClearRecorded <=> (frame.resetAtStart \/ frame.frameIndex = U32Zero))

\* C1 witness: sampleFrame wrapped from UINT32_MAX to 0 with the flag false,
\* and the frame clears.
C1_ClearAtWrap ==
    /\ Recorded
    /\ ClearRecorded
    /\ ~frame.resetAtStart
    /\ frame.prevIndex = UINT32_MAX

\* C2: every recorded dispatch comes after a clear of the accumulation image
\* recorded since the image was created (by create or resize), in an earlier
\* frame or earlier in the same command buffer.
C2_DispatchReadsClearedAccum ==
    Recorded =>
        \A d \in Positions(Cmds, "dispatch") :
            \/ frame.clearedBefore
            \/ \E k \in Positions(Cmds, "clearAccum") : k < d

\* C2 witness: a dispatch recorded in the first frame after a recreation, by a
\* loop that had rendered before.
C2_DispatchAfterRecreation ==
    /\ Recorded
    /\ HasOp(Cmds, "dispatch")
    /\ frame.recreatedBefore # { }
    /\ frame.prevIndex # NoFrame

C4_ResetFrameWritesZero ==
    Recorded =>
        mParamsMapped[imageIndex] =
            IF ClearRecorded THEN U32Zero ELSE frame.frameIndex

\* C5 as stated: when an iteration that rendered ends, sampleFrame is 0 if the
\* iteration reset it (camera change, slider change, recreation after
\* present) and one more than the frame index rendered otherwise.
C5_ZeroAfterResetIteration ==
    FrameDone =>
        sampleFrame =
            IF frame.camChanged \/ frame.uiChanged \/ frame.recreated
            THEN U32Zero
            ELSE U32Inc(frame.frameIndex)

\* C5 amended: when an iteration that rendered ends, sampleFrame has been
\* incremented in every case: it is 1 if a slider changed or the surface was
\* recreated after present, and one more (modulo 2^32) than the frame index
\* rendered otherwise.  A camera change makes the flag true at render and the
\* frame index 0, so sampleFrame is 1 when that frame completes, and the flag
\* is false again unless a slider or a recreation set it after render.
C5_IncrementedAfterEveryFrame ==
    FrameDone =>
        /\ sampleFrame =
               U32Inc(IF frame.uiChanged \/ frame.recreated
                      THEN U32Zero
                      ELSE frame.frameIndex)
        /\ frame.camChanged => (frame.resetAtStart /\ frame.frameIndex = U32Zero)
        /\ (~frame.uiChanged /\ ~frame.recreated) => ~mResetAccum

\* C5 witness: the frame of a camera change has completed: sampleFrame is 1
\* and the flag is false.
C5_CameraFrameCompleted ==
    /\ FrameDone
    /\ frame.camChanged
    /\ ~frame.uiChanged
    /\ ~frame.recreated
    /\ sampleFrame = U32(0, 1)
    /\ ~mResetAccum

\* C6: whenever one or more invalidations were issued since the previous
\* dispatch, exactly one clear is recorded before the next dispatch.
C6_OneClearForAnyNumberOfInvalidations ==
    (Recorded /\ frame.invalsBefore >= 1) => ClearsBeforeDispatch = 1

\* C6 witness: several invalidations queued up, one clear recorded.
C6_SeveralInvalidationsOneClear ==
    /\ Recorded
    /\ frame.invalsBefore >= 2
    /\ ClearsBeforeDispatch = 1

\* C7: two consecutive rendered frames both record the clear only if an
\* invalidation happened after the first frame's render.
C7_NoConsecutiveClearsWithoutInvalidation ==
    (Recorded /\ ClearRecorded /\ frame.prevCleared) => frame.invalsBefore >= 1

\* C7 witness: the frame after a clearing frame, with no invalidation in
\* between, records no clear.
C7_AccumulatesAfterClear ==
    /\ Recorded
    /\ frame.prevCleared
    /\ frame.invalsBefore = 0
    /\ ~ClearRecorded

\* C8: from a surface recreation (on any of the three paths) until the next
\* render, every image slot is marked uninitialized and mResetAccum is true;
\* the first frame rendered after it records the clear before its dispatch.
C8_RecreationResetsSlotsAndFlag ==
    /\ hist.recreatedSinceRender # { } =>
           /\ mResetAccum
           /\ DOMAIN mSwapchainImageInitialized = Images(imageCount)
           /\ \A i \in Images(imageCount) : ~mSwapchainImageInitialized[i]
    /\ (Recorded /\ frame.recreatedBefore # { }) => ClearsBeforeDispatch = 1

\* C8 witness: the surface was recreated on all three paths since the last
\* render.
C8_RecreatedOnAllThreePaths ==
    hist.recreatedSinceRender = { "resize", "acquire", "present" }

\* C9: at most maxFramesInFlight submissions are pending, and the host resets
\* and records a slot's command buffer only when no submission of that slot
\* is pending.
C9_BackPressure ==
    /\ Len(queue) <= maxFramesInFlight
    /\ pc \in { "record", "ui", "submit" } =>
           \A e \in SeqToSet(queue) : e.slot # currentFrame
    /\ ~frame.cmdInFlight

\* C9 witness: both frame slots are pending and the host is held at the fence.
C9_HostHeldAtFence ==
    /\ pc = "wait"
    /\ Len(queue) = maxFramesInFlight
    /\ ~inFlight[currentFrame]

\* C10 as stated: updateParams never writes the parameter slot of an image
\* while a pending submission binds that slot.
C10_NoParamWriteWhileSlotInFlight ==
    ~frame.paramsInFlight

\* Commands that read or write the accumulation image, with the stage and the
\* access types they use.
AccumOps == { "clearAccum", "dispatch" }

AccumBarriers == { "accumToClear", "accumToCompute" }

StageOf(op) == IF op = "clearAccum" THEN STAGE_TRANSFER ELSE STAGE_COMPUTE_SHADER

AccessOf(op) ==
    IF op = "clearAccum"
    THEN { ACCESS_TRANSFER_WRITE }
    ELSE { ACCESS_SHADER_WRITE, ACCESS_SHADER_READ }

\* The barrier at b orders every earlier use of the accumulation image by the
\* command prevOp (in this or an earlier submission of the queue) before the
\* use by the command at k.
Orders(cmds, b, prevOp, k) ==
    /\ b < k
    /\ cmds[b].op \in AccumBarriers
    /\ StageOf(prevOp) \in cmds[b].srcStage
    /\ (AccessOf(prevOp) \ { ACCESS_SHADER_READ }) \subseteq cmds[b].srcAccess
    /\ StageOf(cmds[k].op) \in cmds[b].dstStage
    /\ AccessOf(cmds[k].op) \subseteq cmds[b].dstAccess

Ops(cmds) == [ k \in 1 .. Len(cmds) |-> cmds[k].op ]

CmdOf(cmds, op) == cmds[CHOOSE k \in 1 .. Len(cmds) : cmds[k].op = op]

\* C11: submissions enter the one queue in iteration order (the frame slots
\* alternate), and in every recorded frame that follows another frame on the
\* same accumulation image, the first command using that image comes after a
\* barrier whose source scope holds the earlier frame's dispatch (compute
\* stage, shader writes) and whose destination scope holds that command.
C11_AccumulationOrderedAcrossFrames ==
    /\ \A k \in 1 .. (Len(queue) - 1) :
           queue[k + 1].slot = (queue[k].slot + 1) % maxFramesInFlight
    /\ (Recorded /\ frame.accumUsedBefore) =>
           LET uses == Positions(Cmds, "clearAccum") \cup Positions(Cmds, "dispatch")
               first == CHOOSE k \in uses : \A m \in uses : k <= m
           IN  /\ uses # { }
               /\ \E b \in 1 .. Len(Cmds) : Orders(Cmds, b, "dispatch", first)

\* C11 witness: two frames are pending on the queue and the later one
\* accumulates on what the earlier one writes.
C11_TwoAccumulatingFramesPending ==
    /\ pc = "present"
    /\ Len(queue) = maxFramesInFlight
    /\ frame.accumUsedBefore
    /\ ~ClearRecorded

\* C12: a fully recorded frame holds exactly these commands in this order:
\* in a frame that clears, the accumulation barrier and the clear; the
\* transition of the acquired image to GENERAL; the accumulation barrier to
\* shader read/write; the dispatch; the transition of the acquired image to
\* COLOR_ATTACHMENT_OPTIMAL; the UI render pass.
C12_CommandOrder ==
    pc \in { "submit", "present", "recreateAfterPresent" } =>
        /\ Ops(Cmds) =
               ( IF clearAccum(frame.resetAtStart, frame.frameIndex)
                 THEN << "accumToClear", "clearAccum" >>
                 ELSE << >> )
               \o << "swapBarrier", "accumToCompute", "dispatch",
                     "presentBarrier", "renderPass" >>
        /\ CmdOf(Cmds, "swapBarrier").newLayout = LAYOUT_GENERAL
        /\ { ACCESS_SHADER_READ, ACCESS_SHADER_WRITE } \subseteq
               CmdOf(Cmds, "accumToCompute").dstAccess
        /\ CmdOf(Cmds, "presentBarrier").newLayout = LAYOUT_COLOR_ATTACHMENT

\* C12 witness: a frame that clears is fully recorded (seven commands).
C12_ResetFrameRecorded ==
    /\ pc = "submit"
    /\ Len(Cmds) = 7
    /\ frame.prevIndex # NoFrame

\* C13: the prior layout the pre-dispatch barrier declares for the acquired
\* image is UNDEFINED if and only if no frame was recorded for that image
\* since the swapchain was (re)created and PRESENT_SRC_KHR otherwise; when it
\* is PRESENT_SRC_KHR the commands recorded earlier for that image left it
\* in that layout (the render pass's finalLayout); and the post-dispatch
\* barrier's new layout is the render pass's initialLayout.
C13_DeclaredLayoutsMatch ==
    Recorded =>
        LET declared == CmdOf(Cmds, "swapBarrier").oldLayout IN
        /\ declared \in { LAYOUT_UNDEFINED, LAYOUT_PRESENT_SRC }
        /\ declared = LAYOUT_UNDEFINED <=> ~frame.imageRecordedBefore
        /\ declared = LAYOUT_PRESENT_SRC =>
               /\ frame.imageLayoutBefore = LAYOUT_PRESENT_SRC
               /\ frame.imageLayoutBefore = RenderPassCmd.newLayout
        /\ CmdOf(Cmds, "presentBarrier").newLayout = RenderPassCmd.oldLayout

\* C13 witness: a frame targets an image that an earlier frame targeted,
\* while the other image of the swapchain was never targeted.
C13_ImageTargetedAgain ==
    /\ Recorded
    /\ frame.imageRecordedBefore
    /\ \E i \in Images(imageCount) : ~mSwapchainImageInitialized[i]

\* The next vkWaitForFences on slot f can return: the fence is signaled or a
\* pending submission will signal it.
FenceWillSignal(f) == inFlight[f] \/ \E e \in SeqToSet(queue) : e.slot = f

AllSlotsUninitialized ==
    \A i \in Images(imageCount) : ~mSwapchainImageInitialized[i]

\* C14 as stated: when the loop comes back from an out-of-date acquire it has
\* not failed, the surface and the tracer's resources were recreated, nothing
\* was submitted, and the next iteration gets to retry the acquire: the fence
\* it waits on first is signaled or will be.
C14_AcquireRetriedAfterOutOfDate ==
    (pc = "poll" /\ frame.kind = "acquireOutOfDate") =>
        /\ "acquire" \in hist.recreatedSinceRender
        /\ mResetAccum
        /\ AllSlotsUninitialized
        /\ queue = << >>
        /\ FenceWillSignal(currentFrame)

\* C15: an out-of-date or suboptimal present is never what makes the loop
\* fail; when the iteration ends the surface and the tracer's resources were
\* recreated, every image slot is uninitialized, the reset flag is set and
\* the next iteration's fence wait can return.
C15_PresentOutOfDateRecovered ==
    frame.presentResult = "outOfDate" =>
        /\ pc \in { "recreateAfterPresent", "poll", "done", "failed" }
        /\ pc = "failed" => frame.failed = "waitIdle"
        /\ pc = "poll" =>
               /\ frame.kind = "rendered"
               /\ frame.recreated
               /\ "present" \in hist.recreatedSinceRender
               /\ mResetAccum
               /\ AllSlotsUninitialized
               /\ FenceWillSignal(currentFrame)

\* C15 witness: the loop is at the next iteration after an out-of-date present.
C15_NextIterationAfterPresentOutOfDate ==
    /\ pc = "poll"
    /\ frame.presentResult = "outOfDate"
    /\ frame.failed = "none"

\* C16 as stated: a GPU call of the iteration that returned an error other
\* than the recoverable ones ends the loop at that call.
C16_ErrorSurfacesAtTheCall ==
    frame.failed # "none" => pc = "failed"

\* C17: the step that handles a pending resize changes no fence, submits
\* nothing, records nothing, writes no parameter slot (the slots are new) and
\* does not advance the frame slot; the loop is back at the top of the next
\* iteration with sampleFrame 0 and the reset flag set.
C17_ResizeIterationSkipsFrame ==
    [][ (pc = "poll" /\ frame'.kind = "resize" /\ pc' # "done" /\ pc' # "failed") =>
            /\ pc' = "poll"
            /\ inFlight' = inFlight
            /\ queue' = queue
            /\ cmdBuf' = cmdBuf
            /\ currentFrame' = currentFrame
            /\ \A i \in Images(imageCount') : mParamsMapped'[i] = NoFrame
            /\ hist'.prevIndex = hist.prevIndex
            /\ sampleFrame' = U32Zero
            /\ mResetAccum' ]_vars

\* C17 witness: a resize was handled by a loop that had rendered frames.
C17_ResizeAfterFrames ==
    /\ pc = "poll"
    /\ frame.kind = "resize"
    /\ hist.prevIndex # NoFrame
    /\ cmdBuf[currentFrame] # << >>

\* C18 as stated: after a call of any setter, with any argument, mResetAccum
\* is true.
C18_FlagSetAfterAnySetter ==
    lastCall.op \in SetterOps => mResetAccum

\* C18 amended: after a call of any setter mResetAccum is true, except after
\* setFocusDistance with an argument that is not greater than 0 (NaN
\* included), which leaves the flag and the focus distance as they were.
C18_FlagSetUnlessFocusRejected ==
    lastCall.op \in SetterOps =>
        IF lastCall.op = "setFocusDistance" /\ ~FocusAccepted(lastCall.arg)
        THEN /\ mResetAccum = lastCall.resetBefore
             /\ mFocusDistance = lastCall.focusBefore
        ELSE mResetAccum

\* C18 witness: setFocusDistance was called with a rejected argument while the
\* flag was false, and the flag is still false.
C18_RejectedFocusLeavesFlagFalse ==
    /\ lastCall.op = "setFocusDistance"
    /\ ~FocusAccepted(lastCall.arg)
    /\ ~lastCall.resetBefore
    /\ ~mResetAccum

\* C19 as stated: after setSamplesPerPixel(N) the stored value is
\* clamp(N, 1, 32), and after setMaxDepth(D) it is clamp(D, 1, 64).
C19_ClampedRoundTrip ==
    LET U32Clamp(x, lo, hi) ==
            IF U32Less(x, lo) THEN lo ELSE IF U32Less(hi, x) THEN hi ELSE x
    IN
    /\ lastCall.op = "setSamplesPerPixel" =>
           mSamplesPerPixel = U32Clamp(lastCall.arg, U32(0, 1), U32(0, 32))
    /\ lastCall.op = "setMaxDepth" =>
           mMaxDepth = U32Clamp(lastCall.arg, U32(0, 1), U32(0, 64))

\* C20 as stated: after create and any setter calls, the vertical field of
\* view is within [5, 120] degrees, the aperture is at least 0 and the focus
\* distance is greater than 0; a focus distance that is not positive, passed
\* to setFocusDistance or setCamera, leaves the stored one unchanged.
C20_CameraStateInRange ==
    /\ ~FLess(mVerticalFov, F(5000)) /\ ~FLess(F(120000), mVerticalFov)
    /\ ~mVerticalFov.nan
    /\ ~FLess(mAperture, F(0)) /\ ~mAperture.nan
    /\ FLess(F(0), mFocusDistance)
    /\ (lastCall.op \in { "setFocusDistance", "setCamera" }
          /\ ~FocusAccepted(lastCall.arg)) =>
           mFocusDistance = lastCall.focusBefore

\* C25: currentFrame is always below maxFramesInFlight; the step that ends an
\* iteration which submitted a frame (after present, or after the recreation
\* that follows an out-of-date present) advances it by 1 modulo
\* maxFramesInFlight, and no other step changes it: not the resize iteration,
\* not the recovery from an out-of-date acquire.  A run of uneventful
\* iterations taken in one step advances it once per iteration, UINT32_MAX -
\* sampleFrame times.
C25_RoundRobinSlot ==
    [][ LET endsSubmitted == pc \in { "present", "recreateAfterPresent" } /\ pc' = "poll"
            idleRun == pc = "poll" /\ pc' = "poll" /\ sampleFrame' # sampleFrame
                         /\ sampleFrame' = UINT32_MAX
        IN
        /\ currentFrame \in FrameSlots
        /\ currentFrame' \in FrameSlots
        /\ endsSubmitted => currentFrame' = (currentFrame + 1) % maxFramesInFlight
        /\ idleRun => currentFrame' =
               (currentFrame + (Half - 1 - sampleFrame.lo)) % maxFramesInFlight
        /\ ~endsSubmitted /\ ~idleRun => currentFrame' = currentFrame ]_vars

\* C25 witness: two frames were submitted (the index went 0, 1, 0), and the
\* iteration after them was skipped for a resize.
C25_WrappedThenSkipped ==
    /\ pc = "poll"
    /\ frame.kind = "resize"
    /\ hist.prevIndex = U32(0, 1)
    /\ currentFrame = 0

\* C28 as stated: with a GPU that eventually completes every submission,
\* every fence wait of the loop eventually returns, on every path, the
\* iterations that end early included.
C28_EveryFenceWaitReturns ==
    (pc = "wait") ~> (pc # "wait")

\* How many times the latest call destroyed object h of the kind.
TimesFreed(kind, h) ==
    Cardinality({ k \in 1 .. Len(freed) : freed[k] = Freed(kind, h) })

\* C21: after every resize the previous accumulation image and its view were
\* destroyed exactly once each and exist no more; exactly one accumulation
\* image exists, it is the one mAccumImage names, its extent is the new
\* swapchain extent, and mAccumView is the one view, of that image; the image
\* is marked never-initialized and the reset flag is set.
C21_ResizeReplacesAccumulationImage ==
    lastCall.op = "resize" =>
        /\ TimesFreed("images", lastCall.imageBefore) = 1
        /\ TimesFreed("views", lastCall.viewBefore) = 1
        /\ \A o \in device.images : o.h # lastCall.imageBefore
        /\ \A o \in device.views : o.h # lastCall.viewBefore
        /\ device.images = { [ extent |-> extent, h |-> mAccumImage ] }
        /\ device.views = { [ h |-> mAccumView, image |-> mAccumImage ] }
        /\ mAccumImage # VK_NULL_HANDLE
        /\ mAccumView # VK_NULL_HANDLE
        /\ ~mAccumInitialized
        /\ mResetAccum

\* C21 witness: the second resize, of a tracer that had rendered into the
\* image it gives up, to an extent other than the window's.
C21_ResizedTwice ==
    /\ lastCall.op = "resize"
    /\ resizes = 2
    /\ extent # Extent(U32(0, windowWidth), U32(0, windowHeight))
    /\ cmdBuf[0] # << >>

SceneBound ==
    /\ mSphereBuffer # VK_NULL_HANDLE
    /\ [ h |-> mSphereBuffer, use |-> "spheres", count |-> Len(mSpheres) ]
           \in device.buffers
    /\ DOMAIN mDescriptorSets = Images(imageCount)
    /\ \A i \in DOMAIN mDescriptorSets :
           mDescriptorSets[i].sphereBuffer = mSphereBuffer
    /\ \A i \in DOMAIN paramsSphereCount :
           paramsSphereCount[i] \in { NoFrame, U32(0, Len(mSpheres)) }

\* C23: no render, resize or setter call changes mSpheres or mSphereBuffer;
\* before and after each of them the uploaded buffer exists with the count of
\* mSpheres, every descriptor set (those resize makes anew included) binds it,
\* and the sphere count written to a parameter slot is the number uploaded.
C23_SceneFixedAfterUpload ==
    [][ /\ mSpheres' = mSpheres
        /\ mSphereBuffer' = mSphereBuffer
        /\ SceneBound
        /\ SceneBound' ]_vars

\* C23 witness: after a resize to two images a render wrote the count of the
\* five uploaded spheres into a parameter slot.
C23_RenderedAfterResize ==
    /\ resizes >= 1
    /\ lastCall.op = "render"
    /\ imageCount = 2
    /\ \E i \in DOMAIN paramsSphereCount : paramsSphereCount[i] = U32(0, 5)
    /\ Len(mSpheres) = 5

\* C24: every sphere of mSpheres has a radius above 0 and a material among
\* 0 (lambert), 1 (metal) and 2 (dielectric); after buildScene is called
\* again the list is the one a first call makes, not an extension of it.
C24_SceneWellFormed ==
    /\ \A k \in 1 .. Len(mSpheres) :
           /\ mSpheres[k].radius > 0
           /\ mSpheres[k].material \in { 0, 1, 2 }
    /\ lastCall.op = "buildScene" => mSpheres = buildScene(<< >>)

\* C24 witness: buildScene was called again on the list of five spheres,
\* all three materials among them, and left five.
C24_BuiltAgain ==
    /\ lastCall.op = "buildScene"
    /\ Len(mSpheres) = 5
    /\ { mSpheres[k].material : k \in 1 .. Len(mSpheres) } = { 0, 1, 2 }

\* A handle that names an object of the given kind that exists.
Live(kind, h) == h # VK_NULL_HANDLE /\ SyncObject(kind, h) \in syncObjects

\* C29: every synchronization handle handed to the GPU for a frame slot, the
\* fence and the two semaphores of a submitted batch and the semaphore of a
\* presentation request, is non-null and names an object createSyncObjects
\* made; once VulkanContext::destroy ran none of the objects it made is left.
C29_SyncHandlesCreatedAndDestroyed ==
    /\ \A k \in 1 .. Len(queue) :
         /\ Live("semaphore", queue[k].wait)
         /\ Live("semaphore", queue[k].signal)
         /\ Live("fence", queue[k].fence)
    /\ \A k \in 1 .. Len(presents) : Live("semaphore", presents[k].wait)
    /\ pc = "destroyed" => syncObjects = { }

\* C30: in every slot the semaphores' signals and waits alternate: acquire
\* queues a signal of imageAvailable only when the semaphore is unsignaled
\* with no signal pending, and a slot's submit never queues a signal of
\* renderFinished while a presentation request of the same slot, waiting on
\* the previous signal, has not been processed.
C30_SemaphoresAlternate ==
    [][ /\ (pc = "acquire" /\ pc' = "submit") =>
             ~semaphores[SyncObject("semaphore", mFrames[currentFrame].imageAvailable)]
        /\ (pc = "submit" /\ pc' = "present") =>
             \A k \in 1 .. Len(presents) : presents[k].slot # currentFrame ]_vars

\* 1e-5f
Tolerance == F32Div(F32FromInt(1), F32FromInt(100000))

\* |a - b| <= 1e-5
Near(a, b) == F32LessEq(F32Abs(F32Sub(a, b)), Tolerance)

Orthonormal(u, v, w) ==
    /\ Near(dot(u, v), F32Zero(0))
    /\ Near(dot(u, w), F32Zero(0))
    /\ Near(dot(v, w), F32Zero(0))
    /\ Near(length(u), F32FromInt(1))
    /\ Near(length(v), F32FromInt(1))
    /\ Near(length(w), F32FromInt(1))

\* The unit vector from the look-at point of create toward the initial position.
TowardPosition == normalize(Vec3Sub(CamPosInitial, CreateLookAt))

\* C26: the camera written for position (13, 2, 3) and the direction create
\* derives from look-at (0, 1, 0), with world-up (0, 1, 0): w is within 1e-5
\* of the unit vector from the look-at point toward the position, the dot
\* products of u, v and w are within 1e-5 of 0 and their lengths within 1e-5
\* of 1.
C26_CameraBasisOrthonormal ==
    (lastCall.op = "render" /\ mCamPos = CamPosInitial /\ mCamDir = CamDirCreated) =>
        /\ paramsCamera.origin = CamPosInitial
        /\ Near(paramsCamera.w.x, TowardPosition.x)
        /\ Near(paramsCamera.w.y, TowardPosition.y)
        /\ Near(paramsCamera.w.z, TowardPosition.z)
        /\ Orthonormal(paramsCamera.u, paramsCamera.v, paramsCamera.w)

\* C26 witness: the camera of create was rendered again after setCamera had
\* moved it elsewhere and back.
C26_InitialCameraRendered ==
    /\ lastCall.op = "render"
    /\ mCamPos = CamPosInitial
    /\ mCamDir = CamDirCreated
    /\ ~lastCall.resetBefore
    /\ paramsCamera.w.x.s = 0
    /\ ~HasNaN(paramsCamera.u)

\* The direction is a multiple of world-up (0, 1, 0).
ParallelToWorldUp(d) ==
    /\ IsZero(d.x)
    /\ IsZero(d.z)
    /\ d.y.c = "fin"
    /\ ~IsZero(d.y)

\* C27: when the camera direction is parallel to world-up, the camera written
\* to the parameter slot has no NaN among u, v and w.
C27_NoNaNCameraWritten ==
    (lastCall.op = "render" /\ ParallelToWorldUp(mCamDir)) =>
        ~(HasNaN(paramsCamera.u) \/ HasNaN(paramsCamera.v) \/ HasNaN(paramsCamera.w))

\* C31 as stated: whenever render is called with frame index 0 the reset flag
\* is already true.
C31_IndexZeroOnlyWithFlag ==
    Recorded => (frame.frameIndex = U32Zero => frame.resetAtStart)

\* C31: render is called with frame index 0 and the reset flag false only in
\* the frame after ++sampleFrame wrapped from UINT32_MAX to 0; every other
\* frame with index 0 begins with the flag true.
C31_IndexZeroWithoutFlagOnlyAtWrap ==
    Recorded =>
        ((frame.frameIndex = U32Zero /\ ~frame.resetAtStart) =>
            frame.prevIndex = UINT32_MAX)

\* C31 witness: the frame after the wrap, begun without camera input, is
\* rendered with index 0 and the flag false, and records the clear.
C31_WrappedWithoutFlag ==
    /\ Recorded
    /\ frame.frameIndex = U32Zero
    /\ ~frame.resetAtStart
    /\ ~frame.camChanged
    /\ frame.prevIndex = UINT32_MAX
    /\ ClearRecorded

\* The parameter buffers alive on the device.
ParamsBuffersAlive == { b \in device.buffers : b.use = "params" }

\* C32: after create and after every resize the descriptor sets, the parameter
\* buffers, the mapped parameter pointers and the slot-initialized flags have
\* one entry per image of the current swapchain; descriptor set i binds the
\* view of swapchain image i, parameter buffer i, which is alive, and the
\* current accumulation view, which is alive.
C32_SlotsMatchSwapchain ==
    /\ DOMAIN mDescriptorSets = Images(imageCount)
    /\ DOMAIN mParamsBuffers = Images(imageCount)
    /\ DOMAIN mParamsMapped = Images(imageCount)
    /\ DOMAIN mSwapchainImageInitialized = Images(imageCount)
    /\ \A i \in Images(imageCount) :
         /\ mDescriptorSets[i].swapView = i
         /\ mDescriptorSets[i].paramsBuffer = mParamsBuffers[i]
         /\ mDescriptorSets[i].accumView = mAccumView
         /\ \E b \in ParamsBuffersAlive : b.h = mParamsBuffers[i]
         /\ \E v \in device.views : v.h = mAccumView
    /\ \A i, j \in Images(imageCount) :
         mParamsBuffers[i] = mParamsBuffers[j] => i = j

\* C32 witness: a resize changed the image count (the parameter buffers of
\* the generation before number differently from the current ones), and a
\* frame was rendered on the last slot of the new swapchain.
C32_RenderedAfterCountChange ==
    /\ resizes = 1
    /\ lastCall.op = "render"
    /\ Cardinality(ParamsBuffersAlive) # 2 * imageCount
    /\ mParamsMapped[imageCount - 1] # NoFrame


\* C33 as stated: after any number of resizes the number of live parameter
\* buffers equals the image count of the current swapchain.
C33_LiveParamsBuffersMatchImages ==
    Cardinality(ParamsBuffersAlive) = imageCount


\* The objects of the swapchain among the device's objects.
SwapchainObjects(objects) ==
    { o \in objects : o.kind \in { "swapchain", "renderPass", "imageView",
                                   "framebuffer" } }

\* C34: whenever a step of Swapchain::recreate, RayTracer::resize or the
\* shutdown sequence destroys objects of the swapchain or of the tracer, an
\* idle-wait has succeeded with no submission since, and no submission that is
\* still executing refers to a destroyed object.
C34_DestroyedOnlyWhenIdle ==
    [][ LET goneSwapchain == SwapchainObjects(context.objects) \ context'.objects
            goneTracer == TracerObjects(device) \ TracerObjects(device')
        IN  (goneSwapchain # { } \/ goneTracer # { }) =>
                /\ context'.idle
                /\ \A k \in 1 .. Len(queue) :
                     /\ queue[k].context \cap goneSwapchain = { }
                     /\ queue[k].tracer \cap goneTracer = { } ]_vars

\* C34 witness: objects that submitted frames had referred to were destroyed
\* by a recreation in which the idle-wait of RayTracer::resize returned an
\* error, and the loop went on to submit again.
C34_RetiredAfterFailedResizeWait ==
    /\ pc = "poll"
    /\ resizes >= 1
    /\ context.retired
    /\ context.lastWait = VK_ERROR_DEVICE_LOST
    /\ queue # << >>

\* C35 as stated: once the device is destroyed, every object created from it
\* had been destroyed before, and no object was destroyed twice.
C35_ChildrenDestroyedBeforeDevice ==
    ~context.mDevice =>
        /\ context.orphans.context = { }
        /\ context.orphans.sync = { }
        /\ context.orphans.tracer = { }
        /\ context.twice = { }


\* C36 as stated: every UI frame that NewFrame begins is finished by
\* ImGui::Render before NewFrame is called again; no iteration calls NewFrame
\* on a UI frame that is begun and not finished.
C36_UiFrameFinishedBeforeNext ==
    uiFrame # "begunTwice"



\* C37: while the camera is paused no step changes the camera locals or the
\* camera of the tracer; an iteration without resize that leaves the camera
\* paused calls no setCamera, leaves the reset flag and sampleFrame as they
\* were; and of the iterations in a row that find ESC down only the first one
\* flips the pause.
C37_PausedCameraIgnoresInput ==
    [][ /\ input'.cameraPaused =>
               /\ input'.camPos = input.camPos
               /\ input'.camDir = input.camDir
               /\ input'.yaw = input.yaw
               /\ input'.pitch = input.pitch
               /\ mCamPos' = mCamPos
               /\ mCamDir' = mCamDir
        /\ (pc = "poll" /\ pc' = "wait" /\ input'.cameraPaused) =>
               /\ lastCall' = lastCall
               /\ mResetAccum' = mResetAccum
               /\ sampleFrame' = sampleFrame
        /\ pc = "poll" =>
               input'.cameraPaused = IF input'.held = 1
                                     THEN ~input.cameraPaused
                                     ELSE input.cameraPaused ]_vars

\* C37 witness: the camera was moved, then paused by ESC, ESC is still down an
\* iteration later, in which keys are down and the cursor has moved, and the
\* accumulation has gone on to MaxSampleFrame.
C37_InputWhilePausedAndEscHeld ==
    /\ pc = "wait"
    /\ input.cameraPaused
    /\ input.held = 2
    /\ input.ignored
    /\ input.changes >= 1
    /\ lastCall.op = "setCamera"
    /\ ~mResetAccum
    /\ sampleFrame.lo = MaxSampleFrame

RECURSIVE AccumLayoutAfter(_, _)
AccumLayoutAfter(cmds, before) ==
    IF cmds = << >>
    THEN before
    ELSE AccumLayoutAfter(Tail(cmds),
                          IF Head(cmds).op \in AccumBarriers
                          THEN Head(cmds).newLayout
                          ELSE before)

\* The layout the accumulation image is in when the recorded frame begins:
\* UNDEFINED as created, GENERAL once a frame was recorded for it.
AccumLayoutBefore ==
    IF frame.accumUsedBefore THEN LAYOUT_GENERAL ELSE LAYOUT_UNDEFINED

\* C39: in a recorded frame with a clear, the barrier ahead of the clear
\* declares UNDEFINED if and only if no clear was recorded since the
\* accumulation image was created (by create or resize) and GENERAL
\* otherwise, and what it declares is the layout the image is in; a frame
\* without clear finds the image in GENERAL, as its barrier declares; the
\* barrier ahead of the dispatch names the transfer stage and transfer writes
\* alone as its source exactly when a clear is recorded ahead of it in the
\* same command buffer; and the commands leave the image in GENERAL.
C39_AccumLayoutTracked ==
    Recorded =>
        LET toCompute == CmdOf(Cmds, "accumToCompute")
            at        == CHOOSE k \in 1 .. Len(Cmds) : Cmds[k].op = "accumToCompute"
            clearedAhead == \E k \in 1 .. (at - 1) : Cmds[k].op = "clearAccum"
        IN  /\ HasOp(Cmds, "accumToClear") <=> ClearRecorded
            /\ ClearRecorded =>
                   LET toClear == CmdOf(Cmds, "accumToClear") IN
                   /\ Cmds[1] = toClear
                   /\ Cmds[2].op = "clearAccum"
                   /\ toClear.oldLayout \in { LAYOUT_UNDEFINED, LAYOUT_GENERAL }
                   /\ toClear.oldLayout = LAYOUT_UNDEFINED <=> ~frame.clearedBefore
                   /\ toClear.oldLayout = AccumLayoutBefore
                   /\ toClear.newLayout = Cmds[2].oldLayout
            /\ ~ClearRecorded => toCompute.oldLayout = AccumLayoutBefore
            /\ (/\ toCompute.srcStage = { STAGE_TRANSFER }
                /\ toCompute.srcAccess = { ACCESS_TRANSFER_WRITE }) <=> clearedAhead
            /\ clearedAhead <=> ClearRecorded
            /\ AccumLayoutAfter(Cmds, AccumLayoutBefore) = LAYOUT_GENERAL

\* C39 witness: an earlier frame cleared the image from UNDEFINED, and after
\* an invalidation a frame is recorded that clears it again, from GENERAL.
C39_ClearedAgainAfterRecreation ==
    /\ Recorded
    /\ ClearRecorded
    /\ frame.clearedBefore
    /\ frame.accumUsedBefore
    /\ CmdOf(Cmds, "accumToClear").oldLayout = LAYOUT_GENERAL
    /\ CmdOf(Cmds, "accumToCompute").srcAccess = { ACCESS_TRANSFER_WRITE }
    /\ frame.resetAtStart

====
